---- MODULE Spec2Model ----
(***************************************************************************)
(* Model of the streaming retry engine of gemini-antiblock-go:             *)
(* streaming.ProcessStreamAndRetryInternally, the SSE tokenizer            *)
(* (SSELineIterator), the line classifier (IsDataLine, IsBlockedLine,      *)
(* ExtractFinishReason, ParseLineContent) and the sentinel editor          *)
(* (RemoveDoneTokenFromLine).                                              *)
(*                                                                         *)
(* Text is a sequence of one-character strings.  An SSE line is a record   *)
(* of what the classifier can tell apart in its bytes:                     *)
(*   pre      the bytes before the first "{" (the whole line if none), as  *)
(*            a sequence of pieces: the SSE field name first              *)
(*   json     "obj"  the bytes from the first "{" parse as a JSON object   *)
(*            "bad"  they do not parse                                     *)
(*            "none" the line holds no "{"                                 *)
(*   cand0    candidates[0] is a JSON object                               *)
(*   part0    candidates[0].content.parts[0] is a JSON object              *)
(*   hasText  parts[0].text is a JSON string, text its value               *)
(*   thought  parts[0].thought is the JSON boolean true                    *)
(*   fin      candidates[0].finishReason when it is a string, else ""      *)
(*   finKey   the raw line contains the substring "finishReason"           *)
(*   block    the raw line contains the substring "blockReason"            *)
(*   canon    the JSON bytes are those json.Marshal would produce          *)
(***************************************************************************)
EXTENDS Integers, Sequences, FiniteSets, TLC

\* ------------------------------------------------------------- bounds
\* Non-blank upstream lines scanned in one session, over all response bodies.
MaxLines == 3
\* Largest configured MaxConsecutiveRetries the model draws.
MaxCfgRetries == 2
\* Capacity of the line channel (make(chan string, 100)), scaled down.
ChanCap == 2

\* ------------------------------------------------------------- strings
IsSpace(c) == c = " "

RECURSIVE TrimLeft(_)
TrimLeft(s) ==
    IF s = <<>> THEN s
    ELSE IF IsSpace(Head(s)) THEN TrimLeft(Tail(s)) ELSE s

RECURSIVE TrimRight(_)
TrimRight(s) ==
    IF s = <<>> THEN s
    ELSE IF IsSpace(s[Len(s)]) THEN TrimRight(SubSeq(s, 1, Len(s) - 1)) ELSE s

\* strings.TrimSpace
TrimSpace(s) == TrimRight(TrimLeft(s))

\* strings.HasSuffix
HasSuffix(s, suf) ==
    /\ Len(s) >= Len(suf)
    /\ SubSeq(s, Len(s) - Len(suf) + 1, Len(s)) = suf

\* strings.HasPrefix
HasPrefix(s, p) ==
    /\ Len(s) >= Len(p)
    /\ SubSeq(s, 1, Len(p)) = p

\* strings.TrimSuffix
TrimSuffix(s, suf) ==
    IF HasSuffix(s, suf) THEN SubSeq(s, 1, Len(s) - Len(suf)) ELSE s

doneToken == << "[", "d", "o", "n", "e", "]" >>

\* ------------------------------------------------------------- lines
NoText == << >>

DataLine(text, thought, fin, block) ==
    [pre |-> << "data: " >>, json |-> "obj", cand0 |-> TRUE, part0 |-> TRUE,
     hasText |-> TRUE, text |-> text, thought |-> thought,
     fin |-> fin, finKey |-> fin # "", block |-> block, canon |-> FALSE]

\* A line with no "{" at all: a comment, an id line, an event line.
PlainLine(pre) ==
    [pre |-> pre, json |-> "none", cand0 |-> FALSE, part0 |-> FALSE,
     hasText |-> FALSE, text |-> NoText, thought |-> FALSE,
     fin |-> "", finKey |-> FALSE, block |-> FALSE, canon |-> FALSE]

\* A data line whose payload is not valid JSON; it may hold any bytes, the
\* substring "finishReason" included.
MalformedLine(finKey) ==
    [pre |-> << "data: " >>, json |-> "bad", cand0 |-> FALSE, part0 |-> FALSE,
     hasText |-> FALSE, text |-> NoText, thought |-> FALSE,
     fin |-> "", finKey |-> finKey, block |-> FALSE, canon |-> FALSE]

\* A malformed data line whose bytes hold the substring "blockReason".
MalformedBlockedLine == [MalformedLine(FALSE) EXCEPT !.block = TRUE]

\* A line that does not begin with "data: " (a comment, an id line, an event
\* line) whose bytes hold a JSON object with candidates[0].finishReason = fin
\* (none when fin is ""), or the substring "blockReason".
OtherLine(pre, fin, block) ==
    [pre |-> pre, json |-> IF fin = "" THEN "none" ELSE "obj",
     cand0 |-> fin # "", part0 |-> FALSE,
     hasText |-> FALSE, text |-> NoText, thought |-> FALSE,
     fin |-> fin, finKey |-> fin # "", block |-> block, canon |-> FALSE]

\* No line: the value of the loop variable before the first receive.
NoLine == PlainLine(<< >>)

\* The lines of a model response: text, thoughts, the finish lines and the
\* lines that raise an interruption.
ContentLines ==
    { DataLine(<<"A">>, FALSE, "", FALSE),
      DataLine(<<"t">>, TRUE, "", FALSE),
      DataLine(<<" ", "B">> \o doneToken, FALSE, "STOP", FALSE),
      DataLine(doneToken \o doneToken, FALSE, "STOP", FALSE),
      DataLine(NoText, FALSE, "STOP", FALSE),
      DataLine(<<"C">>, FALSE, "MAX_TOKENS", FALSE),
      DataLine(<<"t">>, TRUE, "STOP", FALSE),
      DataLine(<<"t">>, TRUE, "MAX_TOKENS", FALSE),
      DataLine(<<"A">>, FALSE, "", TRUE),
      DataLine(<<"A">>, FALSE, "SAFETY", FALSE) }

\* The lines of a response that also holds lines other than data lines.
FramingLines ==
    { PlainLine(<< ": ", "ping" >>),
      PlainLine(<< "event: ", "error" >>),
      DataLine(<<" ", "B">> \o doneToken, FALSE, "STOP", FALSE) }

\* The lines of a response in which one line matches several rungs of the
\* retry decision: "blockReason" on a thought line with a finish reason, on a
\* MAX_TOKENS line, on a STOP line with valid text, on an abnormal finish.
PrecedenceLines ==
    { DataLine(<<"t">>, TRUE, "STOP", TRUE),
      DataLine(<<"C">>, FALSE, "MAX_TOKENS", TRUE),
      DataLine(<<"B">> \o doneToken, FALSE, "STOP", TRUE),
      DataLine(<<"A">>, FALSE, "SAFETY", TRUE) }

\* The lines of a response with lines the classifier does not parse: lines
\* that are no data lines and data lines with malformed JSON.
UnparsedLines ==
    { DataLine(<<"A">> \o doneToken, FALSE, "", FALSE),
      OtherLine(<< ": " >>, "", TRUE),
      OtherLine(<< "event: " >>, "STOP", FALSE),
      MalformedLine(TRUE),
      MalformedBlockedLine }

\* The lines the upstream is drawn from.
Lines == ContentLines \cup FramingLines \cup PrecedenceLines \cup UnparsedLines

\* The upstream of one session draws its lines from one of these sets.
Repertoires == { ContentLines, FramingLines, PrecedenceLines, UnparsedLines }

\* ------------------------------------------------------------- classifier
IsDataLine(line) == HasPrefix(line.pre, << "data: " >>)

IsBlockedLine(line) == line.block

ExtractFinishReason(line) ==
    IF ~line.finKey THEN ""
    ELSE IF line.json = "none" THEN ""
    ELSE IF line.json = "bad" THEN ""
    ELSE IF line.cand0 THEN line.fin
    ELSE ""

ParseLineContent(line) ==
    IF ~IsDataLine(line) THEN [Text |-> NoText, IsThought |-> FALSE]
    ELSE IF line.json # "obj" THEN [Text |-> NoText, IsThought |-> FALSE]
    ELSE IF ~line.cand0 \/ ~line.part0 THEN [Text |-> NoText, IsThought |-> FALSE]
    ELSE [Text |-> IF line.hasText THEN line.text ELSE NoText,
          IsThought |-> line.thought]

\* ------------------------------------------------------------- sentinel editor
\* Mutant: only the whole token is looked for.
StripDoneSuffixWholeOnly(originalText, i) == TrimSuffix(originalText, doneToken)

\* The loop "for i := len(doneToken); i > 0; i--": the first i, from the
\* longest, for which the text ends with the last i characters of the token.
RECURSIVE StripDoneSuffix(_, _)
StripDoneSuffix(originalText, i) ==
    IF i = 0 THEN originalText
    ELSE LET suffix == SubSeq(doneToken, Len(doneToken) - i + 1, Len(doneToken))
         IN  IF HasSuffix(originalText, suffix)
             THEN TrimSuffix(originalText, suffix)
             ELSE StripDoneSuffix(originalText, i - 1)

\* Mutant: the rewritten line is the marshalled JSON alone, without line[:idx].
RemoveDoneTokenFromLineNoPrefix(line, shouldRemove) ==
    IF ~IsDataLine(line) \/ ~shouldRemove THEN line
    ELSE IF line.json # "obj" THEN line
    ELSE IF ~line.cand0 \/ ~line.part0 THEN line
    ELSE IF ~line.hasText \/ line.thought THEN line
    ELSE LET originalText == TrimSpace(line.text)
             modifiedText == StripDoneSuffix(originalText, Len(doneToken))
         IN  IF originalText # modifiedText
             THEN [line EXCEPT !.text = modifiedText, !.canon = TRUE, !.pre = << >>]
             ELSE line

\* Mutant: the test originalText != modifiedText is missing, the line is
\* rewritten whenever the text was looked at.
RemoveDoneTokenFromLineAlwaysRewrites(line, shouldRemove) ==
    IF ~IsDataLine(line) \/ ~shouldRemove THEN line
    ELSE IF line.json # "obj" THEN line
    ELSE IF ~line.cand0 \/ ~line.part0 THEN line
    ELSE IF ~line.hasText \/ line.thought THEN line
    ELSE LET originalText == TrimSpace(line.text)
             modifiedText == StripDoneSuffix(originalText, Len(doneToken))
         IN  [line EXCEPT !.text = modifiedText, !.canon = TRUE]

RemoveDoneTokenFromLine(line, shouldRemove) ==
    IF ~IsDataLine(line) \/ ~shouldRemove THEN line
    ELSE IF line.json # "obj" THEN line
    ELSE IF ~line.cand0 \/ ~line.part0 THEN line
    ELSE IF ~line.hasText \/ line.thought THEN line
    ELSE LET originalText == TrimSpace(line.text)
             modifiedText == StripDoneSuffix(originalText, Len(doneToken))
         IN  IF originalText # modifiedText
             THEN [line EXCEPT !.text = modifiedText, !.canon = TRUE]
             ELSE line


\* ------------------------------------------------------------- session state
VARIABLES
    cfg,                     \* config.Config: [max, swallow], read-only
    pc,                      \* where ProcessStreamAndRetryInternally stands
    accumulatedText,
    consecutiveRetryCount,
    isOutputtingFormalText,
    swallowModeActive,
    interruptionReason,      \* reason of the interruption of this pass, or ""
    currentReader,           \* index into readers
    readers,                 \* upstream response bodies opened with status 200
    tasks,                   \* SSELineIterator goroutines, the last is current
    out,                     \* the writer.Write calls, in order
    clientConnected,
    requests,                \* continuation requests issued (client.Do calls)
    interruptions,           \* interruptions detected
    scanned,                 \* non-blank upstream lines scanned
    lastResp,                \* outcome of the continuation request being handled
    lastLine,                \* "for line := range lineCh": the line last received
    interruptedAt,           \* history: the lines an interruption was raised on
    upstream,                \* the lines the upstream of this session can send
    \* HandleStreamingPost
    hpc,                     \* where HandleStreamingPost stands
    originalHeaders,         \* r.Header: header name -> list of values
    upstreamReqs,            \* Header of every upstream request issued, in order
    initialResponse,         \* outcome of the initial upstream request
    response,                \* what the handler wrote as the HTTP response
    \* one call of RemoveDoneTokenFromLine
    edLine,
    edShouldRemove,
    edResult,
    \* the request bodies of one streaming request
    bpc,                     \* where the handler stands with the request body
    clientBody,              \* history: requestBody as parsed from the client
    requestBody,             \* the handler's requestBody map
    retryBodies,             \* the continuation request bodies sent, in order
    \* metrics.Metrics and the goroutines calling RecordAccumulatedText
    MaxAccumulatedText,
    AccumulatedTextBytes,
    mpc,                     \* goroutine -> where it stands in the call
    msize,                   \* goroutine -> the argument size
    mcurrent,                \* goroutine -> the local current
    largestRecorded,         \* history: the largest size of a call that returned
    \* one call of CalculateBackoffDelay
    bkAttempt,
    bkBase,
    bkMax,
    bkDelay                  \* the value returned, -1 before the return

engineVars ==
    << cfg, pc, accumulatedText, consecutiveRetryCount, isOutputtingFormalText,
       swallowModeActive, interruptionReason, currentReader, readers, tasks,
       out, clientConnected, requests, interruptions, scanned, lastResp, lastLine,
       interruptedAt, upstream >>

handlerVars == << hpc, originalHeaders, upstreamReqs, initialResponse, response >>

editorVars == << edLine, edShouldRemove, edResult >>

builderVars == << bpc, clientBody, requestBody, retryBodies >>

metricsVars ==
    << MaxAccumulatedText, AccumulatedTextBytes, mpc, msize, mcurrent,
       largestRecorded >>

backoffVars == << bkAttempt, bkBase, bkMax, bkDelay >>

auxVars == << builderVars, metricsVars, backoffVars >>

vars == << engineVars, handlerVars, editorVars, auxVars >>

\* Mutant: 429 is left out, as for the initial request.
nonRetryableStatusesWithout429 == {400, 401, 403, 404}

nonRetryableStatuses == {400, 401, 403, 404, 429}

\* Statuses and bodies a continuation response is drawn from.
Statuses == {200, 400, 401, 403, 404, 429, 500, 503}
\* The body of an error response, one for each status.
BodyOf(s) == << "body", s >>

NoResp == [kind |-> "none", status |-> 0, body |-> << >>]
TransportError == [kind |-> "transport", status |-> 0, body |-> << >>]
Response(s, b) == [kind |-> "http", status |-> s, body |-> b]

NewReader == [eof |-> FALSE, closed |-> FALSE, produced |-> 0]
\* No line is held by a tokenizer that is not in ch <- line.
NoSource == << 0, 0 >>
\* A tokenizer is "running" (in scanner.Scan), "sending" (in ch <- line with
\* the channel full, holding line) or "closed" (returned, channel closed).
NewTask(r) == [reader |-> r, buf |-> << >>, st |-> "running", line |-> NoSource]

Terminated == pc \in {"done", "failed", "aborted"}

\* ------------------------------------------------------------- frames
SSETerminator == "\n\n"

\* writer.Write([]byte(processedLine + "\n\n")); orig keeps the upstream line.
LineFrame(processedLine, orig, src) ==
    [kind |-> "line", line |-> processedLine, orig |-> orig, src |-> src,
     term |-> SSETerminator, ok |-> TRUE]

\* Mutant: the limit is reported as an internal error.
ErrorFrame504AsInternal(limit, reason, chars) ==
    [kind |-> "error", pre |-> << "event: ", "error" >>, code |-> 500,
     status |-> "INTERNAL", limit |-> limit, reason |-> reason,
     chars |-> chars, term |-> "\n\n", ok |-> TRUE]

\* "event: error\ndata: {"error":{"code":504,...}}\n\n"
ErrorFrame504(limit, reason, chars) ==
    [kind |-> "error", pre |-> << "event: ", "error" >>, code |-> 504,
     status |-> "DEADLINE_EXCEEDED", limit |-> limit, reason |-> reason,
     chars |-> chars, term |-> SSETerminator, ok |-> TRUE]

\* "event: error\ndata: <upstream body>\n\n"
UpstreamErrorFrame(body) ==
    [kind |-> "upstreamError", pre |-> << "event: ", "error" >>, body |-> body,
     term |-> SSETerminator, ok |-> TRUE]

\* One writer.Write call: it succeeds while the client is connected.
Write(o, frame, connected) == Append(o, [frame EXCEPT !.ok = connected])

\* HandleStreamingPost closes the initial body once the engine has returned.
CloseInitial(rs) == [rs EXCEPT ![1].closed = TRUE]

\* ------------------------------------------------------------- request headers
\* An http.Header is a function from (canonical) header names to the list of
\* values of each.
ForwardedHeaderNames == {"Authorization", "X-Goog-Api-Key", "Content-Type", "Accept"}

\* http.Header.Get: the first value of the name, "" when there is none.
HeaderGet(h, name) ==
    IF name \in DOMAIN h /\ h[name] # << >> THEN h[name][1] ELSE ""

\* Mutant: every header of the client is passed on.
BuildUpstreamHeadersAll(reqHeaders) ==
    [name \in {n \in DOMAIN reqHeaders : HeaderGet(reqHeaders, n) # ""}
        |-> << HeaderGet(reqHeaders, name) >>]

\* ProxyHandler.BuildUpstreamHeaders: headers.Set(name, reqHeaders.Get(name))
\* for each of the four names whose first value is not empty.
BuildUpstreamHeaders(reqHeaders) ==
    [name \in {n \in ForwardedHeaderNames : HeaderGet(reqHeaders, n) # ""}
        |-> << HeaderGet(reqHeaders, name) >>]

\* Mutant: the name test of the copy loop is missing.
RetryRequestHeadersAll(headers) ==
    [name \in {n \in DOMAIN headers : headers[n] # << >>} |-> headers[name]]

\* The "Copy headers" loop of the engine: retryReq.Header.Add(name, value)
\* for every value of each of the four names.
RetryRequestHeaders(headers) ==
    [name \in {n \in DOMAIN headers \cap ForwardedHeaderNames : headers[n] # << >>}
        |-> headers[name]]

\* The headers of the session the engine is followed in.
SessionHeaders ==
    [name \in {"Authorization", "Content-Type", "Cookie"} |->
        IF name = "Cookie" THEN << "v", "w" >> ELSE << "v" >>]

\* ------------------------------------------------------------- decisions
\* Mutant: a STOP finish is accepted without looking at the text.
RetryDecisionStopUnchecked(line, isThought, textChunk, acc) ==
    LET finishReason == ExtractFinishReason(line)
    IN  IF finishReason # "" /\ isThought THEN "FINISH_DURING_THOUGHT"
        ELSE IF IsBlockedLine(line) THEN "BLOCK"
        ELSE IF finishReason # "" /\ finishReason # "MAX_TOKENS" /\ finishReason # "STOP"
        THEN "FINISH_ABNORMAL"
        ELSE ""

\* Mutant: MAX_TOKENS is not among the accepted finish reasons.
RetryDecisionMaxTokensAbnormal(line, isThought, textChunk, acc) ==
    LET finishReason == ExtractFinishReason(line)
    IN  IF finishReason # "" /\ isThought THEN "FINISH_DURING_THOUGHT"
        ELSE IF IsBlockedLine(line) THEN "BLOCK"
        ELSE IF finishReason = "STOP"
        THEN LET trimmedText == TrimSpace(acc \o textChunk)
             IN  IF Len(trimmedText) = 0 THEN "FINISH_EMPTY_RESPONSE"
                 ELSE IF ~HasSuffix(trimmedText, doneToken) THEN "FINISH_INCOMPLETE"
                 ELSE ""
        ELSE IF finishReason # "" /\ finishReason # "STOP"
        THEN "FINISH_ABNORMAL"
        ELSE ""

\* Mutant: the test for a finish reason on a thought part is missing.
RetryDecisionThoughtUnchecked(line, isThought, textChunk, acc) ==
    LET finishReason == ExtractFinishReason(line)
    IN  IF IsBlockedLine(line) THEN "BLOCK"
        ELSE IF finishReason = "STOP"
        THEN LET trimmedText == TrimSpace(acc \o textChunk)
             IN  IF Len(trimmedText) = 0 THEN "FINISH_EMPTY_RESPONSE"
                 ELSE IF ~HasSuffix(trimmedText, doneToken) THEN "FINISH_INCOMPLETE"
                 ELSE ""
        ELSE IF finishReason # "" /\ finishReason # "MAX_TOKENS" /\ finishReason # "STOP"
        THEN "FINISH_ABNORMAL"
        ELSE ""

\* Mutant: the block marker is looked at before the thought test.
RetryDecisionBlockFirst(line, isThought, textChunk, acc) ==
    LET finishReason == ExtractFinishReason(line)
    IN  IF IsBlockedLine(line) THEN "BLOCK"
        ELSE IF finishReason # "" /\ isThought THEN "FINISH_DURING_THOUGHT"
        ELSE IF finishReason = "STOP"
        THEN LET trimmedText == TrimSpace(acc \o textChunk)
             IN  IF Len(trimmedText) = 0 THEN "FINISH_EMPTY_RESPONSE"
                 ELSE IF ~HasSuffix(trimmedText, doneToken) THEN "FINISH_INCOMPLETE"
                 ELSE ""
        ELSE IF finishReason # "" /\ finishReason # "MAX_TOKENS" /\ finishReason # "STOP"
        THEN "FINISH_ABNORMAL"
        ELSE ""

\* The retry decision of one line; "" when the line is good.
RetryDecision(line, isThought, textChunk, acc) ==
    LET finishReason == ExtractFinishReason(line)
    IN  IF finishReason # "" /\ isThought THEN "FINISH_DURING_THOUGHT"
        ELSE IF IsBlockedLine(line) THEN "BLOCK"
        ELSE IF finishReason = "STOP"
        THEN LET trimmedText == TrimSpace(acc \o textChunk)
             IN  IF Len(trimmedText) = 0 THEN "FINISH_EMPTY_RESPONSE"
                 ELSE IF ~HasSuffix(trimmedText, doneToken) THEN "FINISH_INCOMPLETE"
                 ELSE ""
        ELSE IF finishReason # "" /\ finishReason # "MAX_TOKENS" /\ finishReason # "STOP"
        THEN "FINISH_ABNORMAL"
        ELSE ""

\* Mutant: the thought swallowing block is missing.
SwallowDiscardsNothing(swallowing, isThought) == FALSE

\* "Thought swallowing logic": in swallow mode a thought line is not looked
\* at further.
SwallowDiscards(swallowing, isThought) == swallowing /\ isThought

\* Mutant: the test after the inner loop is missing.
EndOfStreamReasonUnset(cleanExit, reason) == reason

\* if !cleanExit && interruptionReason == "" { interruptionReason = "DROP" }
EndOfStreamReason(cleanExit, reason) ==
    IF ~cleanExit /\ reason = "" THEN "DROP" ELSE reason

\* Mutant: the test of isOutputtingFormalText is missing.
SwallowArmedWithoutFormalText(swallowOpt, formal, sw) ==
    IF swallowOpt THEN TRUE ELSE sw

\* if cfg.SwallowThoughtsAfterRetry && isOutputtingFormalText
\*     { swallowModeActive = true }; sw is the flag before.
SwallowArmed(swallowOpt, formal, sw) ==
    IF swallowOpt /\ formal THEN TRUE ELSE sw

\* Mutant: the budget test is missing.
BudgetExhaustedNever(count, max) == FALSE

\* Mutant: the budget test written with > instead of >=.
BudgetExhaustedOffByOne(count, max) == count > max

\* if consecutiveRetryCount >= cfg.MaxConsecutiveRetries
BudgetExhausted(count, max) == count >= max

\* Mutant: the test !isThought is missing, thought text is accumulated too.
AccumulateTextThoughtsToo(acc, textChunk, isThought, wrote) ==
    IF wrote /\ textChunk # NoText THEN acc \o textChunk ELSE acc

\* Mutant: the text is accumulated before the write's result is looked at.
AccumulateTextBeforeWrite(acc, textChunk, isThought, wrote) ==
    IF textChunk # NoText /\ ~isThought THEN acc \o textChunk ELSE acc

\* Mutant: the text of the line replaces what was accumulated.
AccumulateTextOverwrites(acc, textChunk, isThought, wrote) ==
    IF wrote /\ textChunk # NoText /\ ~isThought THEN textChunk ELSE acc

\* accumulatedText after the write of a line; wrote is the write's success.
AccumulateText(acc, textChunk, isThought, wrote) ==
    IF wrote /\ textChunk # NoText /\ ~isThought THEN acc \o textChunk ELSE acc

\* Mutant: the newest buffered line is delivered first.
RecvIndexNewestFirst(buf) == Len(buf)

\* for line := range lineCh: a channel delivers in FIFO order.
RecvIndex(buf) == 1

RemoveAt(s, i) == SubSeq(s, 1, i - 1) \o SubSeq(s, i + 1, Len(s))

\* Mutant: the return after the upstream error frame is missing, the
\* engine sleeps and goes on.
FatalNextPcNoReturn == "sleep"

\* What the engine does after a non-retryable status: return.
FatalNextPc == "failed"

\* ------------------------------------------------------------- HTTP responses
\* What the handler has written to the client as the HTTP response.
NoResponse == [status |-> 0, contentType |-> "", body |-> "none"]

\* The headers of "Set up streaming response" and WriteHeader(200).
SSEResponse ==
    [status |-> 200, contentType |-> "text/event-stream; charset=utf-8",
     body |-> "stream"]

StatusToGoogleStatus(code) ==
    CASE code = 400 -> "INVALID_ARGUMENT"
      [] code = 401 -> "UNAUTHENTICATED"
      [] code = 403 -> "PERMISSION_DENIED"
      [] code = 404 -> "NOT_FOUND"
      [] code = 429 -> "RESOURCE_EXHAUSTED"
      [] code = 500 -> "INTERNAL"
      [] code = 503 -> "UNAVAILABLE"
      [] code = 504 -> "DEADLINE_EXCEEDED"
      [] OTHER -> "UNKNOWN"

JSONError(status, message, details) ==
    [status |-> status, contentType |-> "application/json; charset=utf-8",
     body |-> [error |-> [code |-> status, message |-> message,
                          status |-> StatusToGoogleStatus(status),
                          details |-> details]]]

\* The body of an upstream error response: json says whether it parses as a
\* JSON object, error whether it holds an "error" object, code that object's
\* numeric "code" (0: none) and status its "status" ("": none).
ErrorBody(json, error, code, status) ==
    [json |-> json, error |-> error, code |-> code, status |-> status]

ErrorBodies(s) ==
    { ErrorBody(TRUE, TRUE, s, StatusToGoogleStatus(s)),
      ErrorBody(TRUE, TRUE, s, ""),
      ErrorBody(TRUE, FALSE, 0, ""),
      ErrorBody(FALSE, FALSE, 0, "") }

\* Mutant: the error is answered with the streaming status line.
InitialFailureResponseAs200(status, errorBody) ==
    [status |-> 200, contentType |-> "application/json; charset=utf-8",
     body |-> errorBody]

\* "Initial failure: return standardized error".
InitialFailureResponse(status, errorBody) ==
    IF errorBody.json
    THEN [status |-> status, contentType |-> "application/json; charset=utf-8",
          body |-> IF errorBody.error /\ errorBody.status = "" /\ errorBody.code # 0
                   THEN [errorBody EXCEPT !.status = StatusToGoogleStatus(errorBody.code)]
                   ELSE errorBody]
    ELSE JSONError(status,
                   IF status = 429
                   THEN "Resource has been exhausted (e.g. check quota)."
                   ELSE "Request failed",
                   errorBody)

\* ------------------------------------------------------------- request bodies
\* A request body is the Go map the handler parsed from the client:
\*   sys      the value of "systemInstruction"
\*   kind     "list" when "contents" is a JSON array, "notlist" when it is
\*            another value, "missing" when the key is absent
\*   arr,len  the []interface{} of "contents": the first len cells of its
\*            backing array arr, whose length is the capacity of the slice
\*   other    the value of every other field
doneInstruction == "Your message must end with [done] to signify the end of your output."

continueInstruction ==
    "Continue exactly where you left off without any preamble or repetition."

\* One element of contents; role is "" when the element has no string "role".
Message(role, parts) == [role |-> role, parts |-> parts]

\* A cell of a backing array beyond the length of the slice.
NilMessage == Message("", << >>)

\* The value of "systemInstruction": kind "missing", "notmap" (null, a
\* string) or "map"; of a map, role stands for its fields other than "parts",
\* and partsKind says whether "parts" is missing, no list, or a list.
SystemInstruction(kind, role, partsKind, parts) ==
    [kind |-> kind, role |-> role, partsKind |-> partsKind, parts |-> parts]

Body(sys, kind, arr, len, other) ==
    [sys |-> sys, kind |-> kind, arr |-> arr, len |-> len, other |-> other]

NoBody == Body(SystemInstruction("missing", "", "missing", << >>), "missing", << >>, 0, "")

\* contents, ok := body["contents"].([]interface{}); if !ok { contents = [] }
Contents(body) ==
    IF body.kind = "list" THEN SubSeq(body.arr, 1, body.len) ELSE << >>

\* What a reader of the map sees: the fields, contents up to its length.
View(body) ==
    [sys |-> body.sys, kind |-> body.kind, contents |-> Contents(body),
     other |-> body.other]

\* Mutant: the new part is put in front of the existing parts.
InjectSystemPromptPrepends(body) ==
    IF body.sys.kind # "map"
    THEN [body EXCEPT !.sys = SystemInstruction("map", "", "list", << doneInstruction >>)]
    ELSE IF body.sys.partsKind # "list"
    THEN [body EXCEPT !.sys.partsKind = "list", !.sys.parts = << doneInstruction >>]
    ELSE [body EXCEPT !.sys.parts = << doneInstruction >> \o @]

\* ProxyHandler.InjectSystemPrompt: the map is changed in place.
InjectSystemPrompt(body) ==
    IF body.sys.kind = "missing"
    THEN [body EXCEPT !.sys = SystemInstruction("map", "", "list", << doneInstruction >>)]
    ELSE IF body.sys.kind # "map"
    THEN [body EXCEPT !.sys = SystemInstruction("map", "", "list", << doneInstruction >>)]
    ELSE IF body.sys.partsKind # "list"
    THEN [body EXCEPT !.sys.partsKind = "list", !.sys.parts = << doneInstruction >>]
    ELSE [body EXCEPT !.sys.parts = Append(@, doneInstruction)]

\* "Find last user message index": from the last element down; 0 stands for
\* the -1 of the code, indices start at 1.
RECURSIVE LastUserIndexFrom(_, _)
LastUserIndexFrom(contents, i) ==
    IF i = 0 THEN 0
    ELSE IF contents[i].role = "user" THEN i
    ELSE LastUserIndexFrom(contents, i - 1)

\* "Build retry context"
History(acc) ==
    << Message("model", acc), Message("user", << continueInstruction >>) >>

\* Mutant: the history is put after the first user message.
BuildRetryRequestBodyAfterFirstUser(originalBody, acc) ==
    LET contents == Contents(originalBody)
        users == { i \in 1 .. Len(contents) : contents[i].role = "user" }
        firstUserIndex == IF users = {} THEN 0
                          ELSE CHOOSE i \in users : \A j \in users : i <= j
        newContents ==
            IF firstUserIndex # 0
            THEN SubSeq(contents, 1, firstUserIndex) \o History(acc)
                     \o SubSeq(contents, firstUserIndex + 1, Len(contents))
            ELSE contents \o History(acc)
    IN  [sys |-> originalBody.sys, contents |-> newContents,
         other |-> originalBody.other]

\* BuildRetryRequestBody: the map returned, as json.Marshal sees it.
BuildRetryRequestBody(originalBody, acc) ==
    LET contents == Contents(originalBody)
        lastUserIndex == LastUserIndexFrom(contents, Len(contents))
        newContents ==
            IF lastUserIndex # 0
            THEN SubSeq(contents, 1, lastUserIndex) \o History(acc)
                     \o SubSeq(contents, lastUserIndex + 1, Len(contents))
            ELSE contents \o History(acc)
    IN  [sys |-> originalBody.sys, contents |-> newContents,
         other |-> originalBody.other]

\* Mutant: retryBody is the original map itself, not a copy of it.
OriginalAfterBuildAliased(originalBody, acc) ==
    LET newContents == BuildRetryRequestBody(originalBody, acc).contents
    IN  [originalBody EXCEPT !.kind = "list", !.arr = newContents,
                             !.len = Len(newContents)]

\* What a call of BuildRetryRequestBody leaves in the memory of originalBody.
\* The map is copied key by key and never written.  With no user message,
\* append(contents, history...) writes the two messages into the backing
\* array of the original slice when its capacity allows, beyond its length.
OriginalAfterBuild(originalBody, acc) ==
    LET contents == Contents(originalBody)
        lastUserIndex == LastUserIndexFrom(contents, Len(contents))
        len == originalBody.len
    IN  IF /\ originalBody.kind = "list"
           /\ lastUserIndex = 0
           /\ len + 2 <= Len(originalBody.arr)
        THEN [originalBody EXCEPT
                 !.arr = SubSeq(@, 1, len) \o History(acc) \o SubSeq(@, len + 3, Len(@))]
        ELSE originalBody

\* A body sent, read back as a request body.
AsBody(sent) == Body(sent.sys, "list", sent.contents, Len(sent.contents), sent.other)

\* Mutant: each continuation is built from the body sent before it.
RetrySourcePrevious(original, sent) ==
    IF sent = << >> THEN original ELSE AsBody(sent[Len(sent)])

\* The body the engine passes to BuildRetryRequestBody: its parameter
\* originalRequestBody, whatever was sent before.
RetrySource(original, sent) == original

\* No request body is being followed.
BuilderIdle ==
    /\ bpc = "idle"
    /\ clientBody = NoBody
    /\ requestBody = NoBody
    /\ retryBodies = << >>

\* ------------------------------------------------------------- metrics
\* The goroutines that call RecordAccumulatedText.
Procs == {1, 2}

\* NewMetrics: the counters are zero.  No call is being followed.
MetricsIdle ==
    /\ MaxAccumulatedText = 0
    /\ AccumulatedTextBytes = 0
    /\ mpc = [p \in Procs |-> "idle"]
    /\ msize = [p \in Procs |-> 0]
    /\ mcurrent = [p \in Procs |-> 0]
    /\ largestRecorded = 0

\* ------------------------------------------------------------- backoff
\* No call of CalculateBackoffDelay is being followed.
BackoffIdle ==
    /\ bkAttempt = 0
    /\ bkBase = 0
    /\ bkMax = 0
    /\ bkDelay = -1

AuxIdle == BuilderIdle /\ MetricsIdle /\ BackoffIdle

\* ------------------------------------------------------------- initial state
\* The locals of ProcessStreamAndRetryInternally at its entry.
SessionStart ==
    /\ accumulatedText = NoText
    /\ consecutiveRetryCount = 0
    /\ isOutputtingFormalText = FALSE
    /\ swallowModeActive = FALSE
    /\ interruptionReason = ""
    /\ currentReader = 1
    /\ tasks = << >>
    /\ out = << >>
    /\ clientConnected = TRUE
    /\ requests = 0
    /\ interruptions = 0
    /\ scanned = 0
    /\ lastResp = NoResp
    /\ lastLine = NoLine
    /\ interruptedAt = {}

\* No call of the sentinel editor is being followed.
EditorIdle ==
    /\ edLine = NoLine
    /\ edShouldRemove = FALSE
    /\ edResult = NoLine

\* The engine has just been called with the body of a 200 response.
Init ==
    /\ cfg \in [max : 0 .. MaxCfgRetries, swallow : BOOLEAN]
    /\ upstream \in Repertoires
    /\ pc = "loop"
    /\ readers = << NewReader >>
    /\ SessionStart
    /\ hpc = "streaming"
    /\ originalHeaders = SessionHeaders
    /\ upstreamReqs = << BuildUpstreamHeaders(SessionHeaders) >>
    /\ initialResponse = Response(200, << "stream" >>)
    /\ response = SSEResponse
    /\ EditorIdle
    /\ AuxIdle

\* ------------------------------------------------------------- tokenizer
\* scanner.Scan() returns a non-blank line, sent to the channel.
TokenizerLine(t) ==
    LET r == tasks[t].reader
        src == << r, readers[r].produced + 1 >>
    IN  /\ tasks[t].st = "running"
        /\ ~readers[r].eof /\ ~readers[r].closed
        /\ scanned < MaxLines
        /\ tasks' = IF Len(tasks[t].buf) < ChanCap
                    THEN [tasks EXCEPT ![t].buf = Append(@, src)]
                    ELSE [tasks EXCEPT ![t].st = "sending", ![t].line = src]
        /\ readers' = [readers EXCEPT ![r].produced = @ + 1]
        /\ scanned' = scanned + 1
        /\ UNCHANGED << cfg, upstream, pc, accumulatedText, consecutiveRetryCount,
                        isOutputtingFormalText, swallowModeActive, interruptionReason,
                        currentReader, out, clientConnected, requests, interruptions,
                        lastResp, lastLine, interruptedAt, handlerVars, editorVars, auxVars >>

\* ch <- line returns: the channel has room again for the line held.
TokenizerSend(t) ==
    /\ tasks[t].st = "sending"
    /\ Len(tasks[t].buf) < ChanCap
    /\ tasks' = [tasks EXCEPT ![t].buf = Append(@, tasks[t].line),
                              ![t].st = "running", ![t].line = NoSource]
    /\ UNCHANGED << cfg, upstream, pc, accumulatedText, consecutiveRetryCount,
                    isOutputtingFormalText, swallowModeActive, interruptionReason,
                    currentReader, readers, out, clientConnected, requests,
                    interruptions, scanned, lastResp, lastLine, interruptedAt,
                    handlerVars, editorVars, auxVars >>

\* scanner.Scan() returns a line that is empty after TrimSpace: it is not sent
\* and nothing of the session changes.
TokenizerBlank(t) ==
    LET r == tasks[t].reader
    IN  /\ tasks[t].st = "running"
        /\ ~readers[r].eof /\ ~readers[r].closed
        /\ UNCHANGED vars

\* scanner.Scan() returns false (end of data, read error, closed body):
\* the deferred close(ch) runs.
TokenizerEnd(t) ==
    LET r == tasks[t].reader
    IN  /\ tasks[t].st = "running"
        /\ tasks' = [tasks EXCEPT ![t].st = "closed"]
        /\ readers' = [readers EXCEPT ![r].eof = TRUE]
        /\ UNCHANGED << cfg, upstream, pc, accumulatedText, consecutiveRetryCount,
                        isOutputtingFormalText, swallowModeActive, interruptionReason,
                        currentReader, out, clientConnected, requests, interruptions,
                        scanned, lastResp, lastLine, interruptedAt, handlerVars, editorVars, auxVars >>


\* ------------------------------------------------------------- retry engine
\* Top of the outer for loop: interruptionReason := "", a new channel and a
\* new SSELineIterator on currentReader.  An earlier tokenizer is not stopped.
StartStream ==
    /\ pc = "loop"
    /\ interruptionReason' = ""
    /\ tasks' = Append(tasks, NewTask(currentReader))
    /\ lastResp' = NoResp
    /\ lastLine' = NoLine
    /\ pc' = "reading"
    /\ UNCHANGED << cfg, upstream, accumulatedText, consecutiveRetryCount,
                    isOutputtingFormalText, swallowModeActive, currentReader, readers,
                    out, clientConnected, requests, interruptions, scanned,
                    interruptedAt, handlerVars, editorVars, auxVars >>

\* From the end of the inner loop to the next blocking call: the swallow
\* arming, the budget check and either the error frame and return, or the
\* increment and the continuation request (client.Do).  sw is
\* swallowModeActive as the inner loop left it.
Interrupt(reason, sw) ==
    /\ interruptionReason' = reason
    /\ interruptions' = interruptions + 1
    /\ swallowModeActive' = SwallowArmed(cfg.swallow, isOutputtingFormalText, sw)
    /\ IF BudgetExhausted(consecutiveRetryCount, cfg.max)
       THEN /\ out' = Write(out, ErrorFrame504(cfg.max, reason, Len(accumulatedText)),
                            clientConnected)
            /\ pc' = "failed"
            /\ readers' = CloseInitial(readers)
            /\ UNCHANGED << consecutiveRetryCount, requests, lastResp, upstreamReqs >>
       ELSE /\ consecutiveRetryCount' = consecutiveRetryCount + 1
            /\ requests' = requests + 1
            /\ upstreamReqs' = Append(upstreamReqs, RetryRequestHeaders(originalHeaders))
            /\ lastResp' = NoResp
            /\ pc' = "request"
            /\ UNCHANGED << out, readers >>
    /\ UNCHANGED << cfg, upstream, accumulatedText, isOutputtingFormalText, currentReader,
                    clientConnected, scanned >>

\* "Line is good: forward and update state".
Forward(line, src, textChunk, isThought, finishReason) ==
    LET isEndOfResponse == finishReason = "STOP" \/ finishReason = "MAX_TOKENS"
        processedLine == RemoveDoneTokenFromLine(line, isEndOfResponse)
        wrote == clientConnected
    IN  /\ out' = Write(out, LineFrame(processedLine, line, src), clientConnected)
        /\ swallowModeActive' = FALSE
        /\ accumulatedText' = AccumulateText(accumulatedText, textChunk, isThought, wrote)
        /\ isOutputtingFormalText' =
               (isOutputtingFormalText \/ (wrote /\ textChunk # NoText /\ ~isThought))
        /\ pc' = IF ~wrote THEN "aborted"
                 ELSE IF isEndOfResponse THEN "done"
                 ELSE "reading"
        /\ readers' = IF ~wrote \/ isEndOfResponse THEN CloseInitial(readers) ELSE readers
        /\ UNCHANGED << cfg, upstream, consecutiveRetryCount, interruptionReason, currentReader,
                        clientConnected, requests, interruptions, scanned, lastResp,
                        upstreamReqs >>

\* One iteration of "for line := range lineCh".  The bytes of the line are
\* the upstream's choice; they are drawn when the line is classified.
ProcessLine ==
    /\ pc = "reading"
    /\ tasks[Len(tasks)].buf # << >>
    /\ \E line \in upstream :
         LET t == Len(tasks)
             i == RecvIndex(tasks[t].buf)
             src == tasks[t].buf[i]
             content == ParseLineContent(line)
             textChunk == content.Text
             isThought == content.IsThought
             finishReason == ExtractFinishReason(line)
         IN  /\ tasks' = [tasks EXCEPT ![t].buf = RemoveAt(@, i)]
             /\ lastLine' = line
             /\ UNCHANGED << hpc, originalHeaders, initialResponse, response,
                             editorVars, auxVars >>
             /\ IF SwallowDiscards(swallowModeActive, isThought)
                THEN IF finishReason # ""
                     THEN /\ Interrupt("FINISH_DURING_THOUGHT", TRUE)
                          /\ interruptedAt' = interruptedAt \cup {src}
                     ELSE UNCHANGED << cfg, upstream, pc, accumulatedText, consecutiveRetryCount,
                                       isOutputtingFormalText, swallowModeActive,
                                       interruptionReason, currentReader, readers, out,
                                       clientConnected, requests, interruptions,
                                       scanned, lastResp, upstreamReqs, interruptedAt >>
                ELSE LET reason == RetryDecision(line, isThought, textChunk,
                                                 accumulatedText)
                     IN  IF reason # ""
                         THEN /\ Interrupt(reason, FALSE)
                              /\ interruptedAt' = interruptedAt \cup {src}
                         ELSE /\ Forward(line, src, textChunk, isThought, finishReason)
                              /\ UNCHANGED interruptedAt

\* The channel is closed and drained: the inner loop ends with no clean exit
\* and no interruption reason, which is a DROP.
StreamEnded ==
    /\ pc = "reading"
    /\ tasks[Len(tasks)].buf = << >>
    /\ tasks[Len(tasks)].st = "closed"
    /\ Interrupt(EndOfStreamReason(FALSE, interruptionReason), swallowModeActive)
    /\ UNCHANGED << tasks, lastLine, interruptedAt, hpc, originalHeaders, initialResponse, response,
                    editorVars, auxVars >>

\* client.Do returns an error: log, time.Sleep(cfg.RetryDelayMs), continue.
RetryTransportError ==
    /\ pc = "request"
    /\ lastResp' = TransportError
    /\ pc' = "sleep"
    /\ UNCHANGED << cfg, upstream, accumulatedText, consecutiveRetryCount,
                    isOutputtingFormalText, swallowModeActive, interruptionReason,
                    currentReader, readers, tasks, out, clientConnected, requests,
                    interruptions, scanned, lastLine, interruptedAt, handlerVars, editorVars, auxVars >>

\* A non-retryable status: the upstream body in an error frame, return.
RetryFatalStatus ==
    /\ pc = "request"
    /\ \E s \in Statuses \cap nonRetryableStatuses :
         /\ lastResp' = Response(s, BodyOf(s))
         /\ out' = Write(out, UpstreamErrorFrame(BodyOf(s)), clientConnected)
    /\ pc' = FatalNextPc
    /\ readers' = CloseInitial(readers)
    /\ UNCHANGED << cfg, upstream, accumulatedText, consecutiveRetryCount,
                    isOutputtingFormalText, swallowModeActive, interruptionReason,
                    currentReader, tasks, clientConnected, requests, interruptions,
                    scanned, lastLine, interruptedAt, handlerVars, editorVars, auxVars >>

\* Any other status but 200: close the body, sleep, continue.
RetryOtherStatus ==
    /\ pc = "request"
    /\ \E s \in Statuses \ (nonRetryableStatuses \cup {200}) :
         lastResp' = Response(s, BodyOf(s))
    /\ pc' = "sleep"
    /\ UNCHANGED << cfg, upstream, accumulatedText, consecutiveRetryCount,
                    isOutputtingFormalText, swallowModeActive, interruptionReason,
                    currentReader, readers, tasks, out, clientConnected, requests,
                    interruptions, scanned, lastLine, interruptedAt, handlerVars, editorVars, auxVars >>

\* Status 200: currentReader = retryResponse.Body, next pass of the loop.
RetryOK ==
    /\ pc = "request"
    /\ lastResp' = Response(200, << "stream" >>)
    /\ readers' = Append(readers, NewReader)
    /\ currentReader' = Len(readers) + 1
    /\ pc' = "loop"
    /\ UNCHANGED << cfg, upstream, accumulatedText, consecutiveRetryCount,
                    isOutputtingFormalText, swallowModeActive, interruptionReason,
                    tasks, out, clientConnected, requests, interruptions, scanned,
                    lastLine, interruptedAt, handlerVars, editorVars, auxVars >>

\* time.Sleep returns; "continue" restarts the outer loop on the unchanged
\* currentReader, and the response of this iteration goes out of scope.
\* Mutant: the request is sent again as it is, outside the budget check.
SleepNextPcReissue == "request"

\* "continue": after the sleep the outer loop starts over.
SleepNextPc == "loop"

SleepDone ==
    /\ pc = "sleep"
    /\ pc' = SleepNextPc
    /\ lastResp' = NoResp
    /\ UNCHANGED << cfg, upstream, accumulatedText, consecutiveRetryCount,
                    isOutputtingFormalText, swallowModeActive, interruptionReason,
                    currentReader, readers, tasks, out, clientConnected, requests,
                    interruptions, scanned, lastLine, interruptedAt, handlerVars, editorVars, auxVars >>

\* The client goes away; the engine learns of it only from a failed write.
ClientDisconnect ==
    /\ clientConnected
    /\ ~Terminated
    /\ clientConnected' = FALSE
    /\ UNCHANGED << cfg, upstream, pc, accumulatedText, consecutiveRetryCount,
                    isOutputtingFormalText, swallowModeActive, interruptionReason,
                    currentReader, readers, tasks, out, requests, interruptions,
                    scanned, lastResp, lastLine, interruptedAt, handlerVars, editorVars, auxVars >>

Next ==
    \/ StartStream
    \/ ProcessLine
    \/ StreamEnded
    \/ RetryTransportError
    \/ RetryFatalStatus
    \/ RetryOtherStatus
    \/ RetryOK
    \/ SleepDone
    \/ ClientDisconnect
    \/ \E t \in 1 .. Len(tasks) : TokenizerLine(t)
    \/ \E t \in 1 .. Len(tasks) : TokenizerSend(t)
    \/ \E t \in 1 .. Len(tasks) : TokenizerBlank(t)
    \/ \E t \in 1 .. Len(tasks) : TokenizerEnd(t)

Spec == Init /\ [][Next]_vars

\* ------------------------------------------------------------- sessions that run on
\* The session under the conditions a run to the end needs: the client stays
\* connected (every writer.Write succeeds), every goroutine that can take a
\* step is scheduled, every upstream body ends and every client.Do returns.
EngineStep == StartStream \/ ProcessLine \/ StreamEnded \/ SleepDone

RequestReturns ==
    RetryTransportError \/ RetryFatalStatus \/ RetryOtherStatus \/ RetryOK

TokenizerStep ==
    \E t \in 1 .. Len(tasks) :
        TokenizerLine(t) \/ TokenizerSend(t) \/ TokenizerBlank(t) \/ TokenizerEnd(t)

LiveNext ==
    \/ StartStream
    \/ ProcessLine
    \/ StreamEnded
    \/ RetryTransportError
    \/ RetryFatalStatus
    \/ RetryOtherStatus
    \/ RetryOK
    \/ SleepDone
    \/ \E t \in 1 .. Len(tasks) : TokenizerLine(t)
    \/ \E t \in 1 .. Len(tasks) : TokenizerSend(t)
    \/ \E t \in 1 .. Len(tasks) : TokenizerBlank(t)
    \/ \E t \in 1 .. Len(tasks) : TokenizerEnd(t)

\* The lines of the sessions followed to their end: text, a thought, a clean
\* end, an end without the token and an end that interrupts.
TerminationLines ==
    { DataLine(<<"A">>, FALSE, "", FALSE),
      DataLine(<<"t">>, TRUE, "", FALSE),
      DataLine(<<" ", "B">> \o doneToken, FALSE, "STOP", FALSE),
      DataLine(<<"C">>, FALSE, "MAX_TOKENS", FALSE),
      DataLine(<<"A">>, FALSE, "SAFETY", FALSE) }

LiveInit ==
    /\ cfg \in [max : 0 .. MaxCfgRetries, swallow : BOOLEAN]
    /\ upstream \in { TerminationLines, FramingLines }
    /\ pc = "loop"
    /\ readers = << NewReader >>
    /\ SessionStart
    /\ hpc = "streaming"
    /\ originalHeaders = SessionHeaders
    /\ upstreamReqs = << BuildUpstreamHeaders(SessionHeaders) >>
    /\ initialResponse = Response(200, << "stream" >>)
    /\ response = SSEResponse
    /\ EditorIdle
    /\ AuxIdle

LiveSpec ==
    /\ LiveInit
    /\ [][LiveNext]_vars
    /\ WF_vars(EngineStep)
    /\ WF_vars(RequestReturns)
    /\ WF_vars(TokenizerStep)


\* ------------------------------------------------------------- streaming handler
\* The headers a client request is drawn from.
HeaderNames ==
    {"Authorization", "X-Goog-Api-Key", "Content-Type", "Accept", "Cookie",
     "User-Agent"}
HeaderValues == { << "v" >>, << "v", "w" >> }
ClientHeaders == UNION { [names -> HeaderValues] : names \in SUBSET HeaderNames }

\* A streaming POST has arrived; the engine has not been called.
HandlerInit ==
    /\ cfg \in [max : 0 .. MaxCfgRetries, swallow : {FALSE}]
    /\ upstream = ContentLines
    /\ pc = "idle"
    /\ readers = << >>
    /\ SessionStart
    /\ hpc = "start"
    /\ originalHeaders \in ClientHeaders
    /\ upstreamReqs = << >>
    /\ initialResponse = NoResp
    /\ response = NoResponse
    /\ EditorIdle
    /\ AuxIdle

\* HandleStreamingPost up to the initial response: read and parse the body,
\* inject the prompt, build the upstream request and send it.
HandlerRequest ==
    /\ hpc = "start"
    /\ \E body \in {"ok", "unreadable", "invalid"} :
         IF body = "unreadable"
         THEN /\ response' = JSONError(400, "Failed to read request body", "err")
              /\ hpc' = "returned"
              /\ UNCHANGED << upstreamReqs, initialResponse >>
         ELSE IF body = "invalid"
         THEN /\ response' = JSONError(400, "Invalid JSON in request body", "err")
              /\ hpc' = "returned"
              /\ UNCHANGED << upstreamReqs, initialResponse >>
         ELSE /\ upstreamReqs' = << BuildUpstreamHeaders(originalHeaders) >>
              /\ \/ /\ initialResponse' = TransportError
                    /\ response' = JSONError(502, "Bad Gateway",
                                             "Failed to connect to upstream server")
                    /\ hpc' = "returned"
                 \/ /\ \E s \in Statuses :
                         initialResponse' \in
                            IF s = 200 THEN { Response(200, << "stream" >>) }
                            ELSE { Response(s, b) : b \in ErrorBodies(s) }
                    /\ hpc' = "responded"
                    /\ UNCHANGED response
    /\ UNCHANGED << engineVars, originalHeaders, editorVars, auxVars >>

\* The initial response is not 200: the error is answered and the handler
\* returns; the engine is not called.
HandlerInitialFailure ==
    /\ hpc = "responded"
    /\ initialResponse.status # 200
    /\ response' = InitialFailureResponse(initialResponse.status, initialResponse.body)
    /\ hpc' = "returned"
    /\ UNCHANGED << engineVars, originalHeaders, upstreamReqs, initialResponse,
                    editorVars, auxVars >>

\* The initial response is 200: the streaming headers are written and the
\* engine is called with the response body.
HandlerStartStream ==
    /\ hpc = "responded"
    /\ initialResponse.status = 200
    /\ response' = SSEResponse
    /\ hpc' = "streaming"
    /\ pc' = "loop"
    /\ readers' = << NewReader >>
    /\ UNCHANGED << cfg, upstream, accumulatedText, consecutiveRetryCount,
                    isOutputtingFormalText, swallowModeActive, interruptionReason,
                    currentReader, tasks, out, clientConnected, requests,
                    interruptions, scanned, lastResp, lastLine, interruptedAt, originalHeaders,
                    upstreamReqs, initialResponse, editorVars, auxVars >>

\* The engine, seen from the upstream: an interruption with budget left
\* builds and sends one more request.
ContinuationRequest ==
    /\ hpc = "streaming"
    /\ pc = "loop"
    /\ ~BudgetExhausted(consecutiveRetryCount, cfg.max)
    /\ consecutiveRetryCount' = consecutiveRetryCount + 1
    /\ interruptions' = interruptions + 1
    /\ requests' = requests + 1
    /\ upstreamReqs' = Append(upstreamReqs, RetryRequestHeaders(originalHeaders))
    /\ UNCHANGED << cfg, upstream, pc, accumulatedText, isOutputtingFormalText,
                    swallowModeActive, interruptionReason, currentReader, readers,
                    tasks, out, clientConnected, scanned, lastResp, lastLine, interruptedAt, hpc,
                    originalHeaders, initialResponse, response, editorVars, auxVars >>

\* The engine returns and the handler closes the initial body.
HandlerReturn ==
    /\ hpc = "streaming"
    /\ pc = "loop"
    /\ pc' \in {"done", "failed", "aborted"}
    /\ readers' = CloseInitial(readers)
    /\ hpc' = "returned"
    /\ UNCHANGED << cfg, upstream, accumulatedText, consecutiveRetryCount,
                    isOutputtingFormalText, swallowModeActive, interruptionReason,
                    currentReader, tasks, out, clientConnected, requests,
                    interruptions, scanned, lastResp, lastLine, interruptedAt, originalHeaders,
                    upstreamReqs, initialResponse, response, editorVars, auxVars >>

HandlerNext ==
    \/ HandlerRequest
    \/ HandlerInitialFailure
    \/ HandlerStartStream
    \/ ContinuationRequest
    \/ HandlerReturn

HandlerSpec == HandlerInit /\ [][HandlerNext]_vars

\* ------------------------------------------------------------- editor calls
\* The last i characters of "[done]".
DoneSuffix(i) == SubSeq(doneToken, Len(doneToken) - i + 1, Len(doneToken))

\* The texts a call of the sentinel editor is drawn from.
EditorTexts ==
    { pre \o tail :
        pre \in { << >>, << "a" >>, << " ", "a" >> },
        tail \in { DoneSuffix(i) : i \in 0 .. Len(doneToken) }
                 \cup { doneToken \o << " " >>, doneToken \o doneToken,
                        doneToken \o << "x" >> } }

EditorLines ==
    { DataLine(text, thought, fin, FALSE) :
        text \in EditorTexts, thought \in BOOLEAN,
        fin \in {"", "STOP", "MAX_TOKENS"} }
    \cup { PlainLine(<< ": ", "ping" >>), MalformedLine(TRUE), MalformedLine(FALSE) }

EditorInit ==
    /\ cfg = [max |-> 0, swallow |-> FALSE]
    /\ upstream = ContentLines
    /\ pc = "idle"
    /\ readers = << >>
    /\ SessionStart
    /\ hpc = "start"
    /\ originalHeaders = SessionHeaders
    /\ upstreamReqs = << >>
    /\ initialResponse = NoResp
    /\ response = NoResponse
    /\ edLine \in EditorLines
    /\ edShouldRemove \in BOOLEAN
    /\ edResult = NoLine
    /\ AuxIdle

\* processedLine := RemoveDoneTokenFromLine(line, isEndOfResponse)
EditorCall ==
    /\ edResult = NoLine
    /\ edResult' = RemoveDoneTokenFromLine(edLine, edShouldRemove)
    /\ UNCHANGED << engineVars, handlerVars, edLine, edShouldRemove, auxVars >>

EditorNext == EditorCall

EditorSpec == EditorInit /\ [][EditorNext]_vars

\* ------------------------------------------------------------- the request body of a session
\* HandleStreamingPost parses the body, injects the system prompt and hands
\* the map to the engine, which builds each continuation request from it.
UserMsg(q) == Message("user", << q >>)
ModelMsg(a) == Message("model", << a >>)

\* The "contents" arrays of the client bodies followed.
ClientContents ==
    { << >>,
      << UserMsg("q1") >>,
      << ModelMsg("a1") >>,
      << UserMsg("q1"), ModelMsg("a1") >>,
      << UserMsg("q1"), ModelMsg("a1"), UserMsg("q2") >>,
      << UserMsg("q1"), UserMsg("q2"), ModelMsg("a2") >>,
      << Message("", << "x" >>), ModelMsg("a1") >> }

\* json.Unmarshal may leave the slice any spare capacity.
SpareCapacities == {0, 1, 2, 3}

ClientSystemInstructions ==
    { SystemInstruction("missing", "", "missing", << >>),
      SystemInstruction("notmap", "", "missing", << >>),
      SystemInstruction("map", "system", "missing", << >>),
      SystemInstruction("map", "", "notlist", << >>),
      SystemInstruction("map", "system", "list", << >>),
      SystemInstruction("map", "", "list", << "p1" >>),
      SystemInstruction("map", "system", "list", << "p1", "p2" >>) }

ClientBodies ==
    { Body(sys, "list", c \o [i \in 1 .. spare |-> NilMessage], Len(c), "generationConfig") :
        sys \in ClientSystemInstructions, c \in ClientContents,
        spare \in SpareCapacities }
    \cup { Body(sys, kind, << >>, 0, "tools") :
        sys \in ClientSystemInstructions, kind \in {"missing", "notlist"} }

BuilderInit ==
    /\ cfg \in [max : 0 .. MaxCfgRetries, swallow : {FALSE}]
    /\ upstream = ContentLines
    /\ pc = "idle"
    /\ readers = << >>
    /\ SessionStart
    /\ hpc = "start"
    /\ originalHeaders = SessionHeaders
    /\ upstreamReqs = << >>
    /\ initialResponse = NoResp
    /\ response = NoResponse
    /\ EditorIdle
    /\ bpc = "parsed"
    /\ clientBody \in ClientBodies
    /\ requestBody = clientBody
    /\ retryBodies = << >>
    /\ MetricsIdle
    /\ BackoffIdle

BuilderFrame ==
    UNCHANGED << cfg, pc, swallowModeActive, interruptionReason, currentReader,
                 readers, tasks, out, clientConnected, scanned, lastResp,
                 lastLine, interruptedAt, upstream, handlerVars, editorVars,
                 clientBody, metricsVars, backoffVars >>

\* h.InjectSystemPrompt(requestBody)
BuilderInject ==
    /\ bpc = "parsed"
    /\ requestBody' = InjectSystemPrompt(requestBody)
    /\ bpc' = "injected"
    /\ UNCHANGED << accumulatedText, isOutputtingFormalText, consecutiveRetryCount,
                    requests, interruptions, retryBodies >>
    /\ BuilderFrame

\* A non-thought line is forwarded: accumulatedText += textChunk.
BuilderForward ==
    /\ bpc = "injected"
    /\ Len(accumulatedText) < MaxLines
    /\ \E c \in {"A", "B"} :
           accumulatedText' = AccumulateText(accumulatedText, << c >>, FALSE, TRUE)
    /\ isOutputtingFormalText' = TRUE
    /\ UNCHANGED << consecutiveRetryCount, requests, interruptions, requestBody,
                    retryBodies, bpc >>
    /\ BuilderFrame

\* An interruption within the budget: the continuation body is built and sent.
BuilderRequest ==
    /\ bpc = "injected"
    /\ ~ BudgetExhausted(consecutiveRetryCount, cfg.max)
    /\ interruptions' = interruptions + 1
    /\ consecutiveRetryCount' = consecutiveRetryCount + 1
    /\ requests' = requests + 1
    /\ retryBodies' = Append(retryBodies,
           BuildRetryRequestBody(RetrySource(requestBody, retryBodies), accumulatedText))
    /\ requestBody' = OriginalAfterBuild(requestBody, accumulatedText)
    /\ UNCHANGED << accumulatedText, isOutputtingFormalText, bpc >>
    /\ BuilderFrame

BuilderNext == BuilderInject \/ BuilderForward \/ BuilderRequest

BuilderSpec == BuilderInit /\ [][BuilderNext]_vars

\* ------------------------------------------------------------- RecordAccumulatedText
\* Two goroutines call RecordAccumulatedText on the same Metrics, each any
\* number of times; every atomic operation of a call is one step.
MaxSize == 3

Sizes == 1 .. MaxSize

\* Everything but the metrics is at rest.
AtRest ==
    /\ cfg = [max |-> 0, swallow |-> FALSE]
    /\ upstream = ContentLines
    /\ pc = "idle"
    /\ readers = << >>
    /\ SessionStart
    /\ hpc = "start"
    /\ originalHeaders = SessionHeaders
    /\ upstreamReqs = << >>
    /\ initialResponse = NoResp
    /\ response = NoResponse
    /\ EditorIdle
    /\ BuilderIdle

MetricsInit == AtRest /\ MetricsIdle /\ BackoffIdle

MetricsFrame ==
    UNCHANGED << engineVars, handlerVars, editorVars, builderVars, backoffVars >>

\* atomic.CompareAndSwapInt64(addr, old, new): the value of *addr afterwards.
CompareAndSwapInt64(value, old, new) == IF value = old THEN new ELSE value

\* m.RecordAccumulatedText(size) is called.
MetricsCall(p) ==
    /\ mpc[p] = "idle"
    /\ \E size \in Sizes : msize' = [msize EXCEPT ![p] = size]
    /\ mpc' = [mpc EXCEPT ![p] = "store"]
    /\ UNCHANGED << MaxAccumulatedText, AccumulatedTextBytes, mcurrent, largestRecorded >>
    /\ MetricsFrame

\* atomic.StoreInt64(&m.AccumulatedTextBytes, size)
MetricsStore(p) ==
    /\ mpc[p] = "store"
    /\ AccumulatedTextBytes' = msize[p]
    /\ mpc' = [mpc EXCEPT ![p] = "load"]
    /\ UNCHANGED << MaxAccumulatedText, msize, mcurrent, largestRecorded >>
    /\ MetricsFrame

\* current := atomic.LoadInt64(&m.MaxAccumulatedText)
MetricsLoad(p) ==
    /\ mpc[p] = "load"
    /\ mcurrent' = [mcurrent EXCEPT ![p] = MaxAccumulatedText]
    /\ mpc' = [mpc EXCEPT ![p] = "swap"]
    /\ UNCHANGED << MaxAccumulatedText, AccumulatedTextBytes, msize, largestRecorded >>
    /\ MetricsFrame

\* if size > current { atomic.CompareAndSwapInt64(...) }; return
MetricsSwap(p) ==
    /\ mpc[p] = "swap"
    /\ MaxAccumulatedText' =
           IF msize[p] > mcurrent[p]
           THEN CompareAndSwapInt64(MaxAccumulatedText, mcurrent[p], msize[p])
           ELSE MaxAccumulatedText
    /\ largestRecorded' = IF msize[p] > largestRecorded THEN msize[p] ELSE largestRecorded
    /\ mpc' = [mpc EXCEPT ![p] = "idle"]
    /\ UNCHANGED << AccumulatedTextBytes, msize, mcurrent >>
    /\ MetricsFrame

MetricsNext ==
    \E p \in Procs : MetricsCall(p) \/ MetricsStore(p) \/ MetricsLoad(p) \/ MetricsSwap(p)

MetricsSpec == MetricsInit /\ [][MetricsNext]_vars

\* ------------------------------------------------------------- CalculateBackoffDelay
MaxAttempt == 4

MaxDelay == 12

\* CalculateBackoffDelay(attempt, baseDelay, maxDelay), a time.Duration as the
\* number of its units; maxDelay/2 is the integer division of Go.
RECURSIVE BackoffLoop(_, _, _, _)
BackoffLoop(i, delay, attempt, maxDelay) ==
    IF i < attempt /\ delay < maxDelay \div 2
    THEN BackoffLoop(i + 1, delay * 2, attempt, maxDelay)
    ELSE delay

CalculateBackoffDelay(attempt, baseDelay, maxDelay) ==
    IF attempt <= 0 THEN baseDelay
    ELSE LET delay == BackoffLoop(0, baseDelay, attempt, maxDelay)
         IN  IF delay > maxDelay THEN maxDelay ELSE delay

BackoffInit ==
    /\ AtRest
    /\ MetricsIdle
    /\ bkAttempt \in 0 .. MaxAttempt
    /\ bkBase \in 1 .. MaxDelay
    /\ bkMax \in bkBase .. MaxDelay
    /\ bkDelay = -1

BackoffCall ==
    /\ bkDelay = -1
    /\ bkDelay' = CalculateBackoffDelay(bkAttempt, bkBase, bkMax)
    /\ UNCHANGED << engineVars, handlerVars, editorVars, builderVars, metricsVars,
                    bkAttempt, bkBase, bkMax >>

BackoffNext == BackoffCall

BackoffSpec == BackoffInit /\ [][BackoffNext]_vars

\* ------------------------------------------------------------- observations
IsLineFrame(f) == f.kind = "line"
IsEngineError(f) == f.kind \in {"error", "upstreamError"}

\* The first bytes of a frame.
FramePre(f) == IF IsLineFrame(f) THEN f.line.pre ELSE f.pre
BeginsWithData(f) == HasPrefix(FramePre(f), << "data: " >>)
BeginsWithEvent(f) == HasPrefix(FramePre(f), << "event: " >>)
BeginsWithEventError(f) == HasPrefix(FramePre(f), << "event: ", "error" >>)

IsPrefix(a, b) == Len(a) <= Len(b) /\ SubSeq(b, 1, Len(a)) = a

\* The non-thought text fragment a line carries.
FormalText(line) ==
    LET c == ParseLineContent(line)
    IN  IF c.IsThought THEN NoText ELSE c.Text

\* In-order concatenation of the non-thought text fragments of the lines
\* written to the client, as written.
RECURSIVE ClientText(_)
ClientText(o) ==
    IF o = << >> THEN NoText
    ELSE (IF IsLineFrame(Head(o)) /\ Head(o).ok THEN FormalText(Head(o).line) ELSE NoText)
         \o ClientText(Tail(o))

\* The same fragments as the upstream sent them.
RECURSIVE UpstreamText(_)
UpstreamText(o) ==
    IF o = << >> THEN NoText
    ELSE (IF IsLineFrame(Head(o)) /\ Head(o).ok THEN FormalText(Head(o).orig) ELSE NoText)
         \o UpstreamText(Tail(o))

SrcLess(a, b) == a[1] < b[1] \/ (a[1] = b[1] /\ a[2] < b[2])

EngineErrorCount(o) == Cardinality({ i \in 1 .. Len(o) : IsEngineError(o[i]) })

\* The step appends exactly one Write call to out.
WritesOne == Len(out') = Len(out) + 1 /\ SubSeq(out', 1, Len(out)) = out

\* ------------------------------------------------------------- claims

\* C1: in every reachable state of a session consecutiveRetryCount is at most
\* the configured maxConsecutiveRetries.
C1_RetryCountWithinLimit == consecutiveRetryCount <= cfg.max

C1_Witness ==
    /\ cfg.max >= 2
    /\ consecutiveRetryCount = cfg.max
    /\ interruptions = cfg.max + 1
    /\ pc = "failed"

\* C2 as stated: at most one frame written to the client begins with
\* "event: error", and no frame is written after it.
C2_OneEventErrorFrameLast ==
    \A i \in 1 .. Len(out) : BeginsWithEventError(out[i]) => i = Len(out)

\* C2 amended: the engine originates at most one error frame (retry limit or
\* fatal status), it is the last Write call of the session and the session
\* has failed; an upstream line "event: error" is forwarded like any other.
C2_EngineErrorFrameLast ==
    \A i \in 1 .. Len(out) :
        IsEngineError(out[i]) => i = Len(out) /\ pc = "failed"

C2_Witness ==
    /\ Len(out) >= 2
    /\ IsEngineError(out[Len(out)])
    /\ IsLineFrame(out[1])

\* C3: lines are forwarded in the order they arrive from the stream being
\* read, and every line forwarded from a continuation stream is written after
\* all lines forwarded from the stream before it.
C3_ForwardedInArrivalOrder ==
    \A i, j \in 1 .. Len(out) :
        (i < j /\ IsLineFrame(out[i]) /\ IsLineFrame(out[j]))
            => SrcLess(out[i].src, out[j].src)

C3_Witness ==
    /\ Len(out) = 3
    /\ \A i \in 1 .. 3 : IsLineFrame(out[i]) /\ out[i].ok
    /\ out[1].src[1] = 1 /\ out[2].src[1] = 1 /\ out[3].src[1] = 2

\* C4: when a stream drops after forwarding non-thought text A and the
\* continuation supplies text B ending with [done] on a STOP line, the text the
\* client observes is exactly A followed by B with only the trailing [done]
\* removed: no other character, leading whitespace included, is changed.
C4_SplicedTextExact ==
    LET last == out[Len(out)]
    IN  ( /\ pc = "done"
          /\ interruptions >= 1
          /\ Len(out) >= 2
          /\ IsLineFrame(out[1]) /\ FormalText(out[1].orig) # NoText
          /\ out[1].src[1] < last.src[1]
          /\ ExtractFinishReason(last.orig) = "STOP"
          /\ HasSuffix(FormalText(last.orig), doneToken) )
        => ClientText(out) = TrimSuffix(UpstreamText(out), doneToken)

\* C5: no text fragment written to the client on a line whose finishReason is
\* STOP or MAX_TOKENS ends with the literal [done].
C5_NoTrailingDoneOnTerminalLine ==
    \A i \in 1 .. Len(out) :
        ( /\ IsLineFrame(out[i]) /\ out[i].ok
          /\ ExtractFinishReason(out[i].line) \in {"STOP", "MAX_TOKENS"} )
        => ~HasSuffix(ParseLineContent(out[i].line).Text, doneToken)

\* C6 as stated: every frame written begins with "data: " or "event: " and
\* ends with the SSE record terminator.
C6_FramesBeginDataOrEvent ==
    \A i \in 1 .. Len(out) :
        /\ BeginsWithData(out[i]) \/ BeginsWithEvent(out[i])
        /\ out[i].term = "\n\n"

\* C6 amended: every frame written ends with the SSE record terminator; a
\* frame the engine originates begins with "event: ", and a forwarded line
\* begins with the bytes the upstream line began with, so with "data: " when
\* it is a data line (rewritten by the sentinel editor or not) and with
\* whatever a comment, id or event line began with otherwise.
C6_FramesTerminatedPrefixKept ==
    \A i \in 1 .. Len(out) :
        /\ out[i].term = "\n\n"
        /\ IsEngineError(out[i]) => BeginsWithEvent(out[i])
        /\ IsLineFrame(out[i]) => FramePre(out[i]) = out[i].orig.pre
        /\ (IsLineFrame(out[i]) /\ IsDataLine(out[i].orig)) => BeginsWithData(out[i])

C6_Witness ==
    \E i, j \in 1 .. Len(out) :
        /\ IsLineFrame(out[i]) /\ ~IsDataLine(out[i].orig)
        /\ IsLineFrame(out[j]) /\ out[j].line # out[j].orig

\* C7: accumulatedText is a prefix of the in-order concatenation of the
\* non-thought text fragments written to the client so far, up to the removal
\* of the final [done].
C7_AccumulatedPrefixOfClientText ==
    \/ IsPrefix(accumulatedText, ClientText(out))
    \/ IsPrefix(TrimSuffix(accumulatedText, doneToken), ClientText(out))

\* C8: an interruption detected while consecutiveRetryCount equals the limit
\* issues no continuation request, writes exactly one error frame (504,
\* DEADLINE_EXCEEDED, the limit, the reason of that interruption, the byte
\* length of accumulatedText) and fails the session; this is the interruption
\* number limit + 1, every earlier one issues a request and writes nothing.
C8_BudgetExhaustion ==
    [][ (interruptions' = interruptions + 1) =>
          IF consecutiveRetryCount = cfg.max
          THEN /\ requests' = requests
               /\ consecutiveRetryCount' = consecutiveRetryCount
               /\ WritesOne
               /\ LET f == out'[Len(out')]
                  IN  /\ f.kind = "error"
                      /\ BeginsWithEventError(f)
                      /\ f.code = 504
                      /\ f.status = "DEADLINE_EXCEEDED"
                      /\ f.limit = cfg.max
                      /\ f.reason = interruptionReason'
                      /\ f.reason # ""
                      /\ f.chars = Len(accumulatedText)
               /\ EngineErrorCount(out') = 1
               /\ pc' = "failed"
               /\ interruptions' = cfg.max + 1
          ELSE /\ requests' = requests + 1
               /\ out' = out
               /\ pc' = "request"
               /\ interruptions' <= cfg.max ]_vars

C8_Witness ==
    /\ cfg.max = 2
    /\ pc = "failed"
    /\ interruptions = 3
    /\ out[Len(out)].kind = "error"
    /\ out[Len(out)].chars = 2
    /\ out[Len(out)].reason = "DROP"

\* C9: a continuation response with status 400, 401, 403, 404 or 429 makes
\* the engine write one error frame whose data is the upstream body verbatim,
\* issue no further continuation request whatever budget remains, and fail.
C9_FatalStatusDuringRetry ==
    [][ /\ ( /\ pc = "request"
             /\ lastResp'.kind = "http"
             /\ lastResp'.status \in {400, 401, 403, 404, 429} )
           => /\ WritesOne
              /\ out'[Len(out')].kind = "upstreamError"
              /\ BeginsWithEventError(out'[Len(out')])
              /\ out'[Len(out')].body = lastResp'.body
              /\ EngineErrorCount(out') = 1
              /\ requests' = requests
              /\ pc' = "failed"
        /\ pc = "failed" => (pc' = "failed" /\ requests' = requests /\ out' = out)
      ]_vars

C9_Witness ==
    /\ pc = "failed"
    /\ lastResp.status = 429
    /\ consecutiveRetryCount < cfg.max
    /\ out[Len(out)].kind = "upstreamError"
    /\ out[Len(out)].body = BodyOf(429)

\* C10: if the write of a forwarded line fails the session terminates at
\* once: nothing further is written, the line's text is not appended to
\* accumulatedText, consecutiveRetryCount is unchanged and no continuation
\* request is issued afterwards.
C10_WriteFailureTerminates ==
    [][ /\ ( /\ Len(out') = Len(out) + 1
             /\ IsLineFrame(out'[Len(out')])
             /\ ~out'[Len(out')].ok )
           => /\ pc' = "aborted"
              /\ accumulatedText' = accumulatedText
              /\ isOutputtingFormalText' = isOutputtingFormalText
              /\ consecutiveRetryCount' = consecutiveRetryCount
              /\ requests' = requests
        /\ pc = "aborted"
           => /\ pc' = "aborted"
              /\ out' = out
              /\ accumulatedText' = accumulatedText
              /\ consecutiveRetryCount' = consecutiveRetryCount
              /\ requests' = requests
      ]_vars

C10_Witness ==
    /\ pc = "aborted"
    /\ Len(out) >= 2
    /\ ~out[Len(out)].ok
    /\ FormalText(out[Len(out)].orig) # NoText
    /\ consecutiveRetryCount >= 1

\* ------------------------------------------------------------- line steps
\* The step receives one line from the channel of the current tokenizer
\* (one iteration of the inner loop); lastLine' is that line.
LineRead ==
    /\ pc = "reading"
    /\ Len(tasks') = Len(tasks)
    /\ Len(tasks'[Len(tasks')].buf) = Len(tasks[Len(tasks)].buf) - 1

\* The step writes the line it read to the client (the Write call is made).
LineWritten ==
    /\ WritesOne
    /\ IsLineFrame(out'[Len(out')])
    /\ out'[Len(out')].orig = lastLine'

\* The step writes no upstream line to the client.
NoLineWritten ==
    \/ out' = out
    \/ WritesOne /\ IsEngineError(out'[Len(out')])

\* The step raises an interruption with this reason.
Raises(reason) ==
    /\ interruptions' = interruptions + 1
    /\ interruptionReason' = reason

\* Response bodies a running tokenizer can still read from.
ReadersBeingRead ==
    { tasks[t].reader : t \in { u \in 1 .. Len(tasks) :
          /\ tasks[u].st = "running"
          /\ ~readers[tasks[u].reader].eof
          /\ ~readers[tasks[u].reader].closed } }

\* C11: once the client has disconnected no further continuation request is
\* issued, also when the disconnection happens while no line is being written
\* (deciding a retry, sleeping, a continuation request in flight).
C11_NoRequestAfterDisconnect ==
    [][ ~clientConnected => requests' = requests ]_vars

\* C12: within one session no two upstream response streams are being read at
\* the same time: when the stream of a continuation response is read, the
\* tokenizer of the previous reader has stopped reading.
C12_OneStreamReadAtATime == Cardinality(ReadersBeingRead) <= 1

\* C13: when a session has ended, by any path, every upstream response body
\* opened during the session (the initial one and every continuation
\* response read as a stream) has been closed.
C13_AllBodiesClosedAtEnd ==
    Terminated => \A r \in 1 .. Len(readers) : readers[r].closed

\* C15: a non-thought, non-blocked line with finishReason STOP completes the
\* session only if trim(accumulatedText + text) is non-empty and ends with
\* [done]; if it is empty FINISH_EMPTY_RESPONSE is raised, otherwise if it does
\* not end with [done] FINISH_INCOMPLETE is raised, and then the line is not
\* written and the session does not close cleanly.
C15_StopValidation ==
    [][ ( /\ LineRead
          /\ ExtractFinishReason(lastLine') = "STOP"
          /\ ~ParseLineContent(lastLine').IsThought
          /\ ~IsBlockedLine(lastLine') )
        => LET t == TrimSpace(accumulatedText \o ParseLineContent(lastLine').Text)
           IN  /\ pc' = "done" => (t # NoText /\ HasSuffix(t, doneToken))
               /\ t = NoText
                    => /\ Raises("FINISH_EMPTY_RESPONSE")
                       /\ NoLineWritten
                       /\ pc' \in {"request", "failed"}
               /\ (t # NoText /\ ~HasSuffix(t, doneToken))
                    => /\ Raises("FINISH_INCOMPLETE")
                       /\ NoLineWritten
                       /\ pc' \in {"request", "failed"}
      ]_vars

C15_Witness ==
    /\ ExtractFinishReason(lastLine) = "STOP"
    /\ ~ParseLineContent(lastLine).IsThought
    /\ interruptionReason = "FINISH_INCOMPLETE"
    /\ accumulatedText # NoText
    /\ pc = "request"

\* C16: a non-thought, non-blocked line with finishReason MAX_TOKENS is
\* written to the client and, the write succeeding, the session completes
\* cleanly: no interruption is raised and no continuation request is issued,
\* then or later, whether or not the text ends with [done].
C16_MaxTokensCompletes ==
    [][ /\ ( /\ LineRead
             /\ ExtractFinishReason(lastLine') = "MAX_TOKENS"
             /\ ~ParseLineContent(lastLine').IsThought
             /\ ~IsBlockedLine(lastLine') )
           => /\ LineWritten
              /\ interruptions' = interruptions
              /\ interruptionReason' = ""
              /\ requests' = requests
              /\ consecutiveRetryCount' = consecutiveRetryCount
              /\ pc' = IF out'[Len(out')].ok THEN "done" ELSE "aborted"
        /\ pc = "done"
           => /\ pc' = "done"
              /\ requests' = requests
              /\ interruptions' = interruptions
              /\ out' = out
      ]_vars

C16_Witness ==
    /\ pc = "done"
    /\ ExtractFinishReason(lastLine) = "MAX_TOKENS"
    /\ out[Len(out)].ok
    /\ out[Len(out)].orig = lastLine
    /\ ~HasSuffix(TrimSpace(accumulatedText), doneToken)
    /\ requests >= 1

\* C17: a line that carries a finish reason on a thought part is never
\* accepted as completion, in or out of swallow mode: it raises
\* FINISH_DURING_THOUGHT, is not written to the client, and a continuation
\* request follows when budget remains.
C17_FinishDuringThought ==
    [][ ( /\ LineRead
          /\ ExtractFinishReason(lastLine') # ""
          /\ ParseLineContent(lastLine').IsThought )
        => /\ Raises("FINISH_DURING_THOUGHT")
           /\ NoLineWritten
           /\ accumulatedText' = accumulatedText
           /\ IF consecutiveRetryCount < cfg.max
              THEN requests' = requests + 1 /\ pc' = "request" /\ out' = out
              ELSE requests' = requests /\ pc' = "failed"
      ]_vars

C17_Witness ==
    /\ ParseLineContent(lastLine).IsThought
    /\ ExtractFinishReason(lastLine) # ""
    /\ interruptionReason = "FINISH_DURING_THOUGHT"
    /\ cfg.swallow /\ isOutputtingFormalText
    /\ interruptions = 2
    /\ pc = "request"

\* C18: while swallowModeActive is true no thought line is written to the
\* client; the first non-thought line clears swallow mode, and from that line
\* on every non-interrupting line, later thought lines included, is forwarded
\* in arrival order.
C18_SwallowMode ==
    [][ LineRead =>
          LET isThought == ParseLineContent(lastLine').IsThought
              good == interruptions' = interruptions
          IN  /\ (swallowModeActive /\ isThought) => NoLineWritten
              /\ (swallowModeActive /\ isThought /\ good)
                    => (swallowModeActive' /\ out' = out /\ pc' = "reading")
              /\ (good /\ ~(swallowModeActive /\ isThought))
                    => /\ LineWritten
                       /\ ~swallowModeActive'
                       /\ \A i \in 1 .. Len(out) :
                            IsLineFrame(out[i])
                               => SrcLess(out[i].src, out'[Len(out')].src)
      ]_vars

C18_Witness ==
    /\ cfg.swallow
    /\ ~swallowModeActive
    /\ Len(out) = 2
    /\ IsLineFrame(out[2]) /\ out[2].ok
    /\ out[2].src = << 2, 2 >>
    /\ pc = "reading"

\* C14 as stated: the sentinel editor returns the line unchanged whenever the
\* trimmed text of the line does not end with [done], for every line and for
\* either value of the terminal flag.
C14_NoOpWithoutDoneSuffix ==
    edResult # NoLine
        => (~HasSuffix(TrimSpace(edLine.text), doneToken) => edResult = edLine)

\* C14 amended: the sentinel editor returns the line unchanged whenever the
\* trimmed text ends with none of the six non-empty suffixes of [done]
\* ("]", "e]", ... "[done]"), and whenever the terminal flag is false, the
\* line is no data line, its JSON does not parse or its part is a thought.
C14_NoOpWithoutDoneTail ==
    edResult # NoLine
        => ( ( \/ ~edShouldRemove
               \/ ~IsDataLine(edLine)
               \/ edLine.json # "obj"
               \/ edLine.thought
               \/ \A i \in 1 .. Len(doneToken) :
                     ~HasSuffix(TrimSpace(edLine.text), DoneSuffix(i)) )
             => edResult = edLine )

C14_Witness ==
    /\ edResult = edLine
    /\ edShouldRemove
    /\ IsDataLine(edLine)
    /\ ~edLine.thought
    /\ edLine.fin = "STOP"
    /\ edLine.text = << " ", "a" >>

\* C19: every upstream request of a streaming session, the initial one and
\* each continuation request, carries no header other than Authorization,
\* X-Goog-Api-Key, Content-Type and Accept, whatever the client sent.
C19_OnlyForwardedHeaders ==
    \A i \in 1 .. Len(upstreamReqs) :
        /\ DOMAIN upstreamReqs[i] \subseteq ForwardedHeaderNames
        /\ DOMAIN upstreamReqs[i] \subseteq DOMAIN originalHeaders

C19_Witness ==
    /\ Len(upstreamReqs) = 3
    /\ {"Cookie", "User-Agent"} \subseteq DOMAIN originalHeaders
    /\ DOMAIN upstreamReqs[1] = ForwardedHeaderNames
    /\ DOMAIN upstreamReqs[3] = ForwardedHeaderNames

\* C20: when the initial upstream response is not 200 (429 included) no
\* session is started: no continuation request is issued, no SSE frame is
\* written, and the client receives a JSON error response whose HTTP status
\* is the upstream's status.
C20_InitialFailure ==
    (initialResponse.kind = "http" /\ initialResponse.status # 200)
        => /\ pc = "idle"
           /\ requests = 0
           /\ Len(upstreamReqs) = 1
           /\ out = << >>
           /\ response.contentType # SSEResponse.contentType
           /\ hpc \in {"responded", "returned"}
           /\ hpc = "returned"
                => /\ response.status = initialResponse.status
                   /\ response.contentType = "application/json; charset=utf-8"

C20_Witness ==
    /\ hpc = "returned"
    /\ initialResponse.status = 429
    /\ response.status = 429
    /\ cfg.max >= 1

\* ------------------------------------------------------------- failed attempts
\* The pass of the outer loop reads the reader the pass before it read: the
\* continuation attempt between the two failed ("continue" after time.Sleep
\* leaves currentReader as it was).
AfterFailedAttempt ==
    /\ Len(tasks) >= 2
    /\ tasks[Len(tasks)].reader = tasks[Len(tasks) - 1].reader

\* C21: when a continuation attempt fails (transport failure, or a non-200
\* status outside 400, 401, 403, 404, 429) the engine waits and re-issues the
\* continuation request without incrementing consecutiveRetryCount again: the
\* counter has the same value at the re-issued request as at the failed one.
C21_ReissueKeepsCount ==
    [][ (AfterFailedAttempt /\ requests' = requests + 1)
            => consecutiveRetryCount' = consecutiveRetryCount ]_vars

\* C22: whatever the upstream does, continuation attempts that fail with a
\* transport error or a retryable non-200 status included, the number of
\* continuation requests issued in one session never exceeds
\* maxConsecutiveRetries.
C22_RequestsWithinLimit == requests <= cfg.max

C22_Witness ==
    /\ cfg.max = 2
    /\ requests = cfg.max
    /\ AfterFailedAttempt
    /\ interruptions = 3
    /\ pc = "failed"

\* C23: after an interruption is raised on a line of an upstream stream, no
\* line that follows it in that same stream is ever classified or forwarded,
\* also when the continuation attempt that follows fails and the main loop
\* starts a new tokenizer on the unchanged currentReader.
C23_NoLineAfterInterruptingLine ==
    [][ LineRead =>
          LET buf == tasks[Len(tasks)].buf
              src == buf[RecvIndex(buf)]
          IN  \A s \in interruptedAt : ~(s[1] = src[1] /\ s[2] < src[2]) ]_vars

\* C24: outside swallow mode the interruption reason of a line follows a fixed
\* precedence, first match wins: a thought line with a finish reason gives
\* FINISH_DURING_THOUGHT even if it also contains blockReason; otherwise a line
\* containing blockReason gives BLOCK even if it carries MAX_TOKENS or a STOP
\* with valid [done] text; STOP validation and then FINISH_ABNORMAL apply only
\* to lines that matched neither.
C24_DecisionPrecedence ==
    [][ (LineRead /\ ~swallowModeActive) =>
          LET fin == ExtractFinishReason(lastLine')
              thoughtFinish == fin # "" /\ ParseLineContent(lastLine').IsThought
              blocked == IsBlockedLine(lastLine')
              raised == interruptions' = interruptions + 1
          IN  /\ thoughtFinish => Raises("FINISH_DURING_THOUGHT")
              /\ (~thoughtFinish /\ blocked)
                    => (Raises("BLOCK") /\ NoLineWritten /\ pc' # "done")
              /\ ( /\ raised
                   /\ interruptionReason' \in {"FINISH_EMPTY_RESPONSE",
                                                "FINISH_INCOMPLETE", "FINISH_ABNORMAL"} )
                    => (~thoughtFinish /\ ~blocked)
              /\ (raised /\ interruptionReason' \in {"FINISH_EMPTY_RESPONSE",
                                                       "FINISH_INCOMPLETE"})
                    => fin = "STOP"
              /\ (~thoughtFinish /\ ~blocked /\ fin \notin {"", "STOP", "MAX_TOKENS"})
                    <=> Raises("FINISH_ABNORMAL")
      ]_vars

C24_Witness ==
    /\ lastLine = DataLine(<<"t">>, TRUE, "STOP", TRUE)
    /\ interruptionReason = "FINISH_DURING_THOUGHT"
    /\ interruptedAt = { << 1, 1 >>, << 2, 1 >> }
    /\ pc = "request"

\* The stream being read has ended (end of data or read error) and all its
\* lines were received: no terminal line was forwarded and no interruption
\* was raised in this pass, else the inner loop would have been left.
StreamAtEnd ==
    /\ pc = "reading"
    /\ tasks[Len(tasks)].st = "closed"
    /\ tasks[Len(tasks)].buf = << >>

\* C25: if an upstream stream ends with no terminal finish line forwarded and
\* no interruption raised in that pass, the interruption DROP is raised, also
\* when the stream delivered no line at all, and the session never closes
\* cleanly on such a stream.
C25_DropOnStreamEnd ==
    [][ (StreamAtEnd /\ pc' # pc)
            => /\ Raises("DROP")
               /\ NoLineWritten
               /\ pc' = IF consecutiveRetryCount < cfg.max THEN "request" ELSE "failed"
      ]_vars

C25_Witness ==
    /\ interruptionReason = "DROP"
    /\ scanned = 0
    /\ out = << >>
    /\ requests = 1
    /\ pc = "request"

\* C26: every line that does not begin with "data: " (comment, event, id
\* lines) is classified all-default, so it is forwarded verbatim and never
\* raises an interruption nor completes the session, whatever text it
\* contains.
C26_NonDataLineForwarded ==
    [][ (LineRead /\ ~IsDataLine(lastLine'))
            => /\ LineWritten
               /\ out'[Len(out')].line = lastLine'
               /\ interruptions' = interruptions
               /\ pc' # "done"
      ]_vars

\* C27: a "data: " line whose JSON is malformed is classified all-default, is
\* forwarded to the client byte for byte and never raises an interruption by
\* itself, whatever characters the malformed payload contains.
C27_MalformedLineForwarded ==
    [][ (LineRead /\ IsDataLine(lastLine') /\ lastLine'.json = "bad")
            => /\ LineWritten
               /\ out'[Len(out')].line = lastLine'
               /\ interruptions' = interruptions
      ]_vars

\* C28: a line that raises an interruption (FINISH_DURING_THOUGHT, BLOCK,
\* FINISH_EMPTY_RESPONSE, FINISH_INCOMPLETE or FINISH_ABNORMAL) is not written
\* to the client and its text is not appended to accumulatedText, so the
\* accumulatedText sent in the next continuation request equals the
\* non-thought text the client has received.
C28_InterruptingLineNotAccumulated ==
    [][ /\ (LineRead /\ interruptions' = interruptions + 1)
            => /\ interruptionReason' \in
                     {"FINISH_DURING_THOUGHT", "BLOCK", "FINISH_EMPTY_RESPONSE",
                      "FINISH_INCOMPLETE", "FINISH_ABNORMAL"}
               /\ NoLineWritten
               /\ accumulatedText' = accumulatedText
               /\ isOutputtingFormalText' = isOutputtingFormalText
        /\ (requests' = requests + 1)
            => /\ accumulatedText' = ClientText(out')
               /\ accumulatedText' = UpstreamText(out')
      ]_vars

C28_Witness ==
    /\ lastLine = DataLine(<<"A">>, FALSE, "SAFETY", FALSE)
    /\ interruptionReason = "FINISH_ABNORMAL"
    /\ accumulatedText = <<"A">>
    /\ Len(out) = 2
    /\ pc = "request"

\* C29: in every reachable state swallowModeActive is true only if
\* swallowThoughtsAfterRetry is enabled, isOutputtingFormalText is true and at
\* least one interruption has occurred; with the option disabled, or before
\* any non-thought text was forwarded, no line is ever swallowed (a line that
\* raises no interruption is written).
C29_SwallowOnlyAfterFormalText ==
    [][ /\ swallowModeActive'
            => (cfg.swallow /\ isOutputtingFormalText' /\ interruptions' >= 1)
        /\ swallowModeActive
            => (cfg.swallow /\ isOutputtingFormalText /\ interruptions >= 1)
        /\ ( /\ LineRead
             /\ ~cfg.swallow \/ ~isOutputtingFormalText
             /\ interruptions' = interruptions )
            => LineWritten
      ]_vars

C29_Witness ==
    /\ swallowModeActive
    /\ interruptions = 2
    /\ Len(out) = 1
    /\ lastLine = DataLine(<<"t">>, TRUE, "", FALSE)
    /\ pc = "reading"

\* The length of the longest suffix of t that is also a suffix of "[done]"
\* (0 when t ends with none).
LongestDoneTail(t) ==
    CHOOSE i \in 0 .. Len(doneToken) :
        /\ HasSuffix(t, DoneSuffix(i))
        /\ \A j \in (i + 1) .. Len(doneToken) : ~HasSuffix(t, DoneSuffix(j))

\* C30: on a terminal line with non-thought text the sentinel editor removes
\* from the trimmed text the longest suffix that is also a suffix of [done]
\* (lengths 6 down to 1) and nothing else; a chunk "ne]" that ends a sentinel
\* split over two chunks is forwarded with "ne]" stripped.
C30_LongestDoneSuffixStripped ==
    ( /\ edResult # NoLine
      /\ edShouldRemove
      /\ IsDataLine(edLine) /\ edLine.json = "obj"
      /\ edLine.hasText /\ ~edLine.thought )
    => LET t == TrimSpace(edLine.text)
           n == LongestDoneTail(t)
       IN  IF n = 0
           THEN edResult = edLine
           ELSE /\ edResult.text = SubSeq(t, 1, Len(t) - n)
                /\ edResult.text \o DoneSuffix(n) = t
                /\ [edResult EXCEPT !.text = edLine.text, !.canon = edLine.canon]
                      = edLine

C30_Witness ==
    /\ edShouldRemove
    /\ edLine = DataLine(<< "n", "e", "]" >>, FALSE, "STOP", FALSE)
    /\ edResult = [edLine EXCEPT !.text = NoText, !.canon = TRUE]

\* C31: a continuation body is the body passed in with the model message
\* carrying accumulatedText and the continue instruction put right after the
\* last user message, or at the end when contents has no user message or is
\* no list; the original messages keep their order, every other field is
\* copied.
C31_HistoryAfterLastUser ==
    [][requests' = requests + 1 /\ bpc = "injected" =>
        LET old == Contents(requestBody)
            sent == retryBodies'[Len(retryBodies')]
            new == sent.contents
            users == { i \in 1 .. Len(old) : old[i].role = "user" }
        IN  /\ sent.sys = requestBody.sys
            /\ sent.other = requestBody.other
            /\ Len(new) = Len(old) + 2
            /\ \E p \in 0 .. Len(old) :
                  /\ IF users = {} THEN p = Len(old)
                     ELSE p \in users /\ \A u \in users : u <= p
                  /\ SubSeq(new, 1, p) = SubSeq(old, 1, p)
                  /\ new[p + 1] = Message("model", accumulatedText)
                  /\ new[p + 2] = Message("user", << continueInstruction >>)
                  /\ SubSeq(new, p + 3, Len(new)) = SubSeq(old, p + 1, Len(old))
    ]_vars

\* A continuation carrying text was put between two original messages.
C31_Witness ==
    /\ retryBodies # << >>
    /\ accumulatedText # NoText
    /\ LET new == retryBodies[Len(retryBodies)].contents
       IN  /\ Len(new) = 5
           /\ new[Len(new)] = ModelMsg("a2")
           /\ new[3] = Message("model", accumulatedText)

\* C32: a call of BuildRetryRequestBody leaves the original body as it was,
\* whatever number of calls came before.
C32_OriginalUnchanged ==
    [][bpc = "injected" => View(requestBody') = View(requestBody)]_vars

\* Two continuations were built from a body whose contents had room for the
\* appended messages in its backing array.
C32_Witness ==
    /\ requests = 2
    /\ requestBody.arr # clientBody.arr
    /\ Len(requestBody.arr) = Len(clientBody.arr)

\* C33: every continuation body has two messages more than the body the
\* handler injected the prompt into, however many continuations came before,
\* and its model message carries accumulatedText as it is at that moment.
C33_BuiltFromOriginal ==
    [][requests' = requests + 1 /\ bpc = "injected" =>
        LET sent == retryBodies'[Len(retryBodies')]
            inserted == { i \in 1 .. Len(sent.contents) :
                            sent.contents[i] = Message("model", accumulatedText) }
        IN  /\ Len(sent.contents) = Len(Contents(clientBody)) + 2
            /\ inserted # {}
            /\ \A i \in 1 .. Len(sent.contents) :
                  sent.contents[i].role = "model" /\ i \notin inserted
                      => \E j \in 1 .. Len(Contents(clientBody)) :
                            Contents(clientBody)[j] = sent.contents[i]
            /\ sent.sys.kind = "map"
            /\ sent.sys.parts # << >>
            /\ sent.sys.parts[Len(sent.sys.parts)] = doneInstruction
    ]_vars

\* A second continuation was sent after more text had been forwarded.
C33_Witness ==
    /\ Len(retryBodies) = 2
    /\ \E i \in 1 .. Len(retryBodies[1].contents) :
          /\ retryBodies[1].contents[i].role = "model"
          /\ retryBodies[1].contents[i].parts # NoText
          /\ retryBodies[1].contents[i].parts # accumulatedText
          /\ IsPrefix(retryBodies[1].contents[i].parts, accumulatedText)

\* C34: after InjectSystemPrompt the last part of systemInstruction is the
\* [done] instruction and the parts before it are the parts the body had, in
\* order (none when systemInstruction or its parts were missing or no list);
\* every other field of the body is as the client sent it.
C34_DoneInstructionLast ==
    bpc = "injected" =>
        LET before == IF clientBody.sys.kind = "map" /\ clientBody.sys.partsKind = "list"
                      THEN clientBody.sys.parts ELSE << >>
        IN  /\ requestBody.sys.kind = "map"
            /\ requestBody.sys.partsKind = "list"
            /\ requestBody.sys.parts = Append(before, doneInstruction)
            /\ clientBody.sys.kind = "map" => requestBody.sys.role = clientBody.sys.role
            /\ requestBody.kind = clientBody.kind
            /\ Contents(requestBody) = Contents(clientBody)
            /\ requestBody.other = clientBody.other

\* The prompt was injected into a body that had two parts already.
C34_Witness ==
    /\ bpc = "injected"
    /\ Len(clientBody.sys.parts) = 2
    /\ Len(requestBody.sys.parts) = 3

\* C35: accumulatedText changes only by appending the text of a non-thought
\* line that was forwarded; every earlier value is a prefix of every later
\* one; a swallowed line, a thought line, a line without text, an
\* interruption and a continuation request leave it unchanged.
C35_AccumulatedTextAppendOnly ==
    [][ /\ IsPrefix(accumulatedText, accumulatedText')
        /\ accumulatedText' # accumulatedText
            => /\ LineRead
               /\ LineWritten
               /\ out'[Len(out')].ok
               /\ FormalText(lastLine') # NoText
               /\ accumulatedText' = accumulatedText \o FormalText(lastLine')
        /\ (~ LineRead \/ NoLineWritten \/ FormalText(lastLine') = NoText)
            => accumulatedText' = accumulatedText
        /\ (interruptions' # interruptions \/ requests' # requests)
            => accumulatedText' = accumulatedText
      ]_vars

\* Text was appended to earlier text on the stream of a continuation.
C35_Witness ==
    /\ Len(accumulatedText) >= 2
    /\ requests >= 1
    /\ currentReader >= 2
    /\ pc = "reading"
    /\ FormalText(lastLine) # NoText
    /\ out # << >>
    /\ IsLineFrame(out[Len(out)])
    /\ out[Len(out)].orig = lastLine

\* C36: with finite upstream streams, continuation requests that return and
\* client writes that succeed, the session terminates: with the clean end,
\* or failed with an error frame as the last thing written; for every
\* configured maximum and also when the continuation attempts keep failing.
C36_SessionTerminates ==
    <>(\/ pc = "done"
       \/ /\ pc = "failed"
          /\ out # << >>
          /\ IsEngineError(out[Len(out)]))

\* A session ended with the error frame after a continuation attempt failed.
C36_Witness ==
    /\ pc = "failed"
    /\ cfg.max >= 1
    /\ requests = cfg.max
    /\ AfterFailedAttempt
    /\ IsEngineError(out[Len(out)])

C38_MaxCoversLargestSize ==
    (\A p \in Procs : mpc[p] = "idle") => MaxAccumulatedText >= largestRecorded

RECURSIVE Pow2(_)
Pow2(n) == IF n = 0 THEN 1 ELSE 2 * Pow2(n - 1)

Min(a, b) == IF a <= b THEN a ELSE b

\* C39: for attempt >= 0 and 0 < baseDelay <= maxDelay, CalculateBackoffDelay
\* returns min(baseDelay * 2^attempt, maxDelay).
C39_BackoffIsCappedPower ==
    bkDelay # -1 => bkDelay = Min(bkBase * Pow2(bkAttempt), bkMax)

====
